---- MODULE Spec2Model ----
(***************************************************************************)
(* Model of the on-device analytics core of the "grow" plant monitor:      *)
(* the periodic sensor task (main.c), the offline telemetry cache          *)
(* (data_cache.c), the hourly sensor history and the health analysis       *)
(* (common/ml_analysis.c, common/plant_analysis.c) and the water history   *)
(* (common/water_analysis.c).                                              *)
(*                                                                         *)
(* Floats are modelled by integers; a quotient the code computes in float  *)
(* arithmetic is kept as an exact fraction [num, den].  A C string that    *)
(* the code builds with snprintf is the sequence of the pieces written.    *)
(***************************************************************************)
EXTENDS Integers, Sequences, FiniteSets, TLC

VARIABLES
    uptime,              \* k_uptime_get() / 1000: seconds since boot
    due,                 \* time at which sensor_work is scheduled to run
    provisioned,         \* main.c dev_info.provisioned
    is_connected,        \* connectivity.c is_connected
    cache,               \* data_cache.c cache[MAX_CACHED_ENTRIES]
    cache_head,          \* data_cache.c cache_head
    cache_count,         \* data_cache.c cache_count
    sensor_data,         \* plant_analysis.c sensor_data (current values + history[5])
    last_hourly_update,  \* ml_analysis.c static last_hourly_update
    history_loaded,      \* plant_analysis.c static history_loaded
    habitat_data,        \* plant_analysis.c habitat_data (the four ranges)
    ml_result,           \* main.c ml_result
    water_history,       \* water_analysis.c water_pattern.history
    nvs,                 \* the key-value flash store behind storage.c
    tick_out,            \* what the last run of sensor_work_handler did
    ticks,               \* number of runs of sensor_work_handler so far
    conn_changes,        \* number of connectivity callbacks so far
    online_ticks,        \* number of runs of sensor_work_handler while connected
    enq_log,             \* entries enqueued since the cache was last empty
    rec_log,             \* the record() calls made so far, oldest first
    script,              \* the sensor signal the environment plays
    reset_requested,     \* button_handler.c reset_requested
    factory_reset_requested, \* button_handler.c factory_reset_requested
    unsaved,             \* the buffers whose latest save by the handler failed
    retry_count,         \* esp32/connectivity.c retry_count
    in_reprovisioning_mode, \* esp32/connectivity.c in_reprovisioning_mode
    reconnect_work       \* esp32/connectivity.c reconnect_work: pending, and due when

vars == <<uptime, due, provisioned, is_connected, cache, cache_head, cache_count,
          sensor_data, last_hourly_update, history_loaded, habitat_data, ml_result,
          water_history, nvs, tick_out, ticks, conn_changes, online_ticks,
          enq_log, rec_log, script,
                   reset_requested, factory_reset_requested, unsaved,
                   retry_count, in_reprovisioning_mode, reconnect_work>>

\* A k_work_delayable that is not scheduled.
NoWork == [pending |-> FALSE, due |-> 0]

----------------------------------------------------------------------------
(* Program constants *)

MAX_CACHED_ENTRIES == 48

HISTORY_SLOTS == 24

NUM_CHANNELS == 5

HOUR_SECONDS == 3600

WATER_HISTORY_SIZE == 168

SENSOR_READ_INTERVAL == 60

\* water_analysis.c: samples needed before a prediction, the longest gap in
\* seconds (exclusive) between two samples of a usable pair, the rise that
\* marks a watering event, the samples that give full confidence.
MIN_WATER_SAMPLES == 48

MAX_PAIR_SECONDS == 7200

WATERING_RISE == 5

FULL_CONFIDENCE_SAMPLES == 72

\* main.c: the moisture threshold handed to the predictor and the confidence
\* above which a prediction is uploaded.
WATERING_THRESHOLD == 30

UPLOAD_CONFIDENCE == 30

BUTTON_PRESS_SHORT == 1

BUTTON_PRESS_LONG == 2

ML_HEALTH_HEALTHY == 0

ML_HEALTH_STRESSED == 1

ML_HEALTH_CRITICAL == 2

EINVAL == 22

ENOENT == 2

EIO == 5

EFAULT == 14

----------------------------------------------------------------------------
(* Small helpers of the model *)

Min(a, b) == IF a < b THEN a ELSE b

\* An exact fraction num/den (den > 0) standing for a float quotient.
Frac(n, d) == [num |-> n, den |-> d]

FracEq(a, b) == a.num * b.den = b.num * a.den

\* a < b for fractions with positive denominators.
FracLess(a, b) == a.num * b.den < b.num * a.den

RECURSIVE SumSeq(_)
SumSeq(s) == IF s = <<>> THEN 0 ELSE Head(s) + SumSeq(Tail(s))

\* The last n elements of s (all of s when it is shorter).
LastN(s, n) == SubSeq(s, Len(s) - Min(Len(s), n) + 1, Len(s))

Channels == 0 .. (NUM_CHANNELS - 1)

\* A sensor reading, channel order of ml_analysis.h history[]: moisture, light,
\* temperature, humidity, air movement.
Reading(m, l, t, h, a) ==
    [soil_moisture |-> m, light_level |-> l, temperature |-> t,
     humidity |-> h, air_movement |-> a]

ChannelValue(r, ch) ==
    CASE ch = 0 -> r.soil_moisture
      [] ch = 1 -> r.light_level
      [] ch = 2 -> r.temperature
      [] ch = 3 -> r.humidity
      [] ch = 4 -> r.air_movement

----------------------------------------------------------------------------
(* data_cache.c: the offline telemetry cache *)

\* A zeroed struct cached_sensor_reading (memset 0): empty strings, valid false.
ZeroEntry ==
    [soil_moisture |-> 0, light_level |-> 0, temperature |-> 0, humidity |-> 0,
     air_movement |-> 0, timestamp |-> 0, health_status |-> 0,
     env_mismatch |-> <<>>, plant_status |-> "", valid |-> FALSE]

CacheSlots == 0 .. (MAX_CACHED_ENTRIES - 1)

\* The module state of data_cache.c as one record.
CacheState(c, h, n) == [cache |-> c, cache_head |-> h, cache_count |-> n]

data_cache_init ==
    CacheState([i \in CacheSlots |-> ZeroEntry], 0, 0)

\* The enqueue that, once the ring is full, writes at the head without
\* advancing it.
data_cache_add_reading_stuck_head(st, r, timestamp, health_status, env_mismatch, plant_status) ==
    LET entry == [soil_moisture |-> r.soil_moisture,
                  light_level   |-> r.light_level,
                  temperature   |-> r.temperature,
                  humidity      |-> r.humidity,
                  air_movement  |-> r.air_movement,
                  timestamp     |-> timestamp,
                  health_status |-> health_status,
                  env_mismatch  |-> env_mismatch,
                  plant_status  |-> plant_status,
                  valid         |-> TRUE]
        full  == st.cache_count >= MAX_CACHED_ENTRIES
    IN  [cache       |-> [st.cache EXCEPT ![st.cache_head] = entry],
         cache_head  |-> IF full THEN st.cache_head
                                 ELSE (st.cache_head + 1) % MAX_CACHED_ENTRIES,
         cache_count |-> IF full THEN st.cache_count ELSE st.cache_count + 1,
         ret         |-> 0]

\* The strings copied by strncpy are at most 22 and 17 characters long, below
\* the 31 the entry's buffers hold, so they are stored whole.
data_cache_add_reading(st, r, timestamp, health_status, env_mismatch, plant_status) ==
    LET entry == [soil_moisture |-> r.soil_moisture,
                  light_level   |-> r.light_level,
                  temperature   |-> r.temperature,
                  humidity      |-> r.humidity,
                  air_movement  |-> r.air_movement,
                  timestamp     |-> timestamp,
                  health_status |-> health_status,
                  env_mismatch  |-> env_mismatch,
                  plant_status  |-> plant_status,
                  valid         |-> TRUE]
    IN  [cache       |-> [st.cache EXCEPT ![st.cache_head] = entry],
         cache_head  |-> (st.cache_head + 1) % MAX_CACHED_ENTRIES,
         cache_count |-> IF st.cache_count < MAX_CACHED_ENTRIES
                           THEN st.cache_count + 1
                           ELSE st.cache_count,
         ret         |-> 0]

data_cache_count(st) == st.cache_count

\* The slot computation that ignores the head: logical index i is slot i also
\* when the ring is full.
actual_index_no_wrap(st, index) == index

\* The physical slot of logical index `index`.
actual_index(st, index) ==
    IF st.cache_count < MAX_CACHED_ENTRIES
      THEN index
      ELSE (st.cache_head + index) % MAX_CACHED_ENTRIES

\* The get whose range check lets index = cache_count through.
data_cache_get_reading_count_inclusive(st, index) ==
    IF index < 0 \/ index > st.cache_count
      THEN [ret |-> -EINVAL, reading |-> ZeroEntry]
      ELSE IF ~ st.cache[actual_index(st, index) % MAX_CACHED_ENTRIES].valid
             THEN [ret |-> -ENOENT, reading |-> ZeroEntry]
             ELSE [ret |-> 0, reading |-> st.cache[actual_index(st, index) % MAX_CACHED_ENTRIES]]

\* ret is 0 and reading the entry, or ret is a negative errno.
data_cache_get_reading(st, index) ==
    IF index < 0 \/ index >= st.cache_count
      THEN [ret |-> -EINVAL, reading |-> ZeroEntry]
      ELSE IF ~ st.cache[actual_index(st, index)].valid
             THEN [ret |-> -ENOENT, reading |-> ZeroEntry]
             ELSE [ret |-> 0, reading |-> st.cache[actual_index(st, index)]]

data_cache_clear(st) ==
    [cache |-> [i \in CacheSlots |-> ZeroEntry], cache_head |-> 0,
     cache_count |-> 0, ret |-> 0]

----------------------------------------------------------------------------
(* storage.c: the key-value flash store *)

NotFound == [found |-> FALSE]

Stored(v) == [found |-> TRUE, value |-> v]

NvsKeys == {"cache/meta", "cache/data", "sensor_history", "water",
            "device/provisioned"}

\* The flash of a device that has never run the handler: empty, or holding
\* the provisioning flag that storage_save_device_config wrote.
FirstBootFlash(prov) ==
    [k \in NvsKeys |-> IF k = "device/provisioned" /\ prov THEN Stored(TRUE)
                                                          ELSE NotFound]

\* storage_save_value: nvs_write either stores the value or fails and leaves
\* the key as it was.
storage_save_value(store, key, value, ok) ==
    IF ok THEN [nvs |-> [store EXCEPT ![key] = Stored(value)], ret |-> 0]
          ELSE [nvs |-> store, ret |-> -EIO]

\* Metadata and entries go to two keys; a failed first write returns before
\* the second.  ok_meta, ok_data: whether each nvs_write succeeds.
data_cache_save(st, store, ok_meta, ok_data) ==
    LET m == storage_save_value(store, "cache/meta",
                 [head |-> st.cache_head, count |-> st.cache_count], ok_meta)
        d == storage_save_value(m.nvs, "cache/data", st.cache, ok_data)
    IN  IF m.ret < 0 THEN m ELSE d

\* The load that takes the stored head without reducing it to a slot number.
data_cache_load_head_plus_capacity(st, store) ==
    IF ~ store["cache/meta"].found
      THEN data_cache_init @@ [ret |-> 0]
      ELSE IF ~ store["cache/data"].found
        THEN st @@ [ret |-> -ENOENT]
        ELSE [cache       |-> store["cache/data"].value,
              cache_head  |-> store["cache/meta"].value.head + MAX_CACHED_ENTRIES,
              cache_count |-> store["cache/meta"].value.count,
              ret         |-> 0]

\* data_cache_load: no metadata, an empty cache; metadata without entries, an
\* error and the cache as it was; else the stored entries, head and count.
data_cache_load(st, store) ==
    IF ~ store["cache/meta"].found
      THEN data_cache_init @@ [ret |-> 0]
      ELSE IF ~ store["cache/data"].found
        THEN st @@ [ret |-> -ENOENT]
        ELSE [cache       |-> store["cache/data"].value,
              cache_head  |-> store["cache/meta"].value.head,
              cache_count |-> store["cache/meta"].value.count,
              ret         |-> 0]

\* storage_save_device_config, all five writes having succeeded: the last of
\* them is the provisioning flag.
storage_save_device_config(store) ==
    [store EXCEPT !["device/provisioned"] = Stored(TRUE)]

\* storage_load_device_config: the stored flag, false when there is none.
storage_load_device_config(store) ==
    IF store["device/provisioned"].found THEN store["device/provisioned"].value
                                         ELSE FALSE

\* storage_reset_device_config: the keys are deleted in turn, the provisioning
\* flag last; a failed delete returns before it.
storage_reset_device_config(store, ok) ==
    IF ok THEN [store EXCEPT !["device/provisioned"] = NotFound] ELSE store

ml_save_sensor_history(store, sd, ok) ==
    storage_save_value(store, "sensor_history", sd, ok)

water_analysis_save(store, wh, ok) ==
    storage_save_value(store, "water", wh, ok)

\* water_analysis_load: the stored pattern, or an error and the pattern as it
\* was.
water_analysis_load(wh, store) ==
    IF store["water"].found
      THEN [ret |-> 0, water_history |-> store["water"].value]
      ELSE [ret |-> -ENOENT, water_history |-> wh]

----------------------------------------------------------------------------
(* common/ml_analysis.c: hourly history and health analysis *)

HistorySlots == 0 .. (HISTORY_SLOTS - 1)

\* memset(&sensor_data, 0, ...) of plant_analysis_init.
ZeroSensorData ==
    [soil_moisture |-> 0, light_level |-> 0, temperature |-> 0, humidity |-> 0,
     air_movement |-> 0, timestamp |-> 0,
     history |-> [ch \in Channels |->
                    [values |-> [j \in HistorySlots |-> 0],
                     index  |-> 0,
                     filled |-> FALSE]]]

\* One channel's append: store at the cursor, advance it modulo 24, set
\* filled when it comes back to 0.
history_append(h, value) ==
    LET next == (h.index + 1) % HISTORY_SLOTS
    IN  [values |-> [h.values EXCEPT ![h.index] = value],
         index  |-> next,
         filled |-> IF next = 0 THEN TRUE ELSE h.filled]

\* The gate that looks at the elapsed time only, without the meaning of
\* "never updated" for a last_hourly_update of 0.
hourly_gate_open_elapsed_only(lhu, now) == now - lhu >= HOUR_SECONDS

\* Whether the hourly gate lets this call append.
hourly_gate_open(lhu, now) ==
    lhu = 0 \/ now - lhu >= HOUR_SECONDS

\* The recorder whose air-movement buffer is outside the hourly gate: it is
\* appended on every call.
ml_add_sensor_reading_air_ungated(sd, lhu, r, now) ==
    LET cur == [sd EXCEPT !.soil_moisture = r.soil_moisture,
                          !.light_level   = r.light_level,
                          !.temperature   = r.temperature,
                          !.humidity      = r.humidity,
                          !.air_movement  = r.air_movement,
                          !.timestamp     = now]
        open == hourly_gate_open(lhu, now)
    IN  [sensor_data |->
            [cur EXCEPT !.history =
                [ch \in Channels |->
                    IF open \/ ch = NUM_CHANNELS - 1
                      THEN history_append(sd.history[ch], ChannelValue(r, ch))
                      ELSE sd.history[ch]]],
         last_hourly_update |-> IF open THEN now ELSE lhu,
         ret |-> 0]

\* sd: sensor_data, lhu: last_hourly_update, r: the reading, now: k_uptime_get()/1000.
ml_add_sensor_reading(sd, lhu, r, now) ==
    LET cur == [sd EXCEPT !.soil_moisture = r.soil_moisture,
                          !.light_level   = r.light_level,
                          !.temperature   = r.temperature,
                          !.humidity      = r.humidity,
                          !.air_movement  = r.air_movement,
                          !.timestamp     = now]
    IN  IF hourly_gate_open(lhu, now)
          THEN [sensor_data |->
                   [cur EXCEPT !.history =
                       [ch \in Channels |->
                           history_append(sd.history[ch], ChannelValue(r, ch))]],
                last_hourly_update |-> now,
                ret |-> 0]
          ELSE [sensor_data |-> cur, last_hourly_update |-> lhu, ret |-> 0]

\* The device-wide default ranges of plant_analysis_process_reading.
DefaultHabitat ==
    [ideal_temperature_min   |-> 18, ideal_temperature_max   |-> 26,
     ideal_humidity_min      |-> 40, ideal_humidity_max      |-> 70,
     ideal_soil_moisture_min |-> 30, ideal_soil_moisture_max |-> 70,
     ideal_light_level_min   |-> 30, ideal_light_level_max   |-> 80]

is_temp_mismatch(temp, habitat) ==
    temp < habitat.ideal_temperature_min \/ temp > habitat.ideal_temperature_max

\* The humidity test that counts a value at the minimum or the maximum as a
\* mismatch.
is_humidity_mismatch_at_bounds(humidity, habitat) ==
    humidity <= habitat.ideal_humidity_min \/ humidity >= habitat.ideal_humidity_max

is_humidity_mismatch(humidity, habitat) ==
    humidity < habitat.ideal_humidity_min \/ humidity > habitat.ideal_humidity_max

is_moisture_mismatch(moisture, habitat) ==
    moisture < habitat.ideal_soil_moisture_min \/ moisture > habitat.ideal_soil_moisture_max

is_light_mismatch(light, habitat) ==
    light < habitat.ideal_light_level_min \/ light > habitat.ideal_light_level_max

\* The distance from the minimum instead of from the middle of the range.
compute_diff_from_min(value, lo, hi) == Frac(value - lo, 1)

\* value - (min + max) / 2, as a fraction over 2.
compute_diff(value, lo, hi) == Frac(2 * value - (lo + hi), 2)

compute_temp_diff(temp, habitat) ==
    compute_diff(temp, habitat.ideal_temperature_min, habitat.ideal_temperature_max)

compute_humidity_diff(humidity, habitat) ==
    compute_diff(humidity, habitat.ideal_humidity_min, habitat.ideal_humidity_max)

compute_moisture_diff(moisture, habitat) ==
    compute_diff(moisture, habitat.ideal_soil_moisture_min, habitat.ideal_soil_moisture_max)

compute_light_diff(light, habitat) ==
    compute_diff(light, habitat.ideal_light_level_min, habitat.ideal_light_level_max)

\* The inner loop of the history averages: the sum of values[0 .. history_len-1].
RECURSIVE history_sum(_, _)
history_sum(values, history_len) ==
    IF history_len = 0 THEN 0
    ELSE history_sum(values, history_len - 1) + values[history_len - 1]

\* The average that takes the write cursor for the number of populated slots
\* also after the buffer has wrapped.
rolling_average_cursor_only(sd, ch) ==
    LET history_len == sd.history[ch].index
    IN  IF history_len > 0
          THEN Frac(history_sum(sd.history[ch].values, history_len), history_len)
          ELSE Frac(ChannelValue(sd, ch), 1)

\* model_input[10 + ch]: the mean of the populated slots, or the current value
\* when no slot is populated.
rolling_average(sd, ch) ==
    LET history_len == IF sd.history[ch].filled THEN HISTORY_SLOTS
                                               ELSE sd.history[ch].index
    IN  IF history_len > 0
          THEN Frac(history_sum(sd.history[ch].values, history_len), history_len)
          ELSE Frac(ChannelValue(sd, ch), 1)

\* The input with the ideal offsets and the averages in each other's place.
model_input_offsets_last(sd, habitat) ==
    [i \in 0 .. 14 |->
        CASE i < 5  -> Frac(ChannelValue(sd, i), 1)
          [] i < 10 -> rolling_average(sd, i - 5)
          [] i = 10 -> compute_moisture_diff(sd.soil_moisture, habitat)
          [] i = 11 -> compute_light_diff(sd.light_level, habitat)
          [] i = 12 -> compute_temp_diff(sd.temperature, habitat)
          [] i = 13 -> compute_humidity_diff(sd.humidity, habitat)
          [] OTHER  -> Frac(0, 1)]

\* The 15-element classifier input, indices 0 .. 14.
model_input(sd, habitat) ==
    [i \in 0 .. 14 |->
        CASE i < 5  -> Frac(ChannelValue(sd, i), 1)
          [] i = 5  -> compute_moisture_diff(sd.soil_moisture, habitat)
          [] i = 6  -> compute_light_diff(sd.light_level, habitat)
          [] i = 7  -> compute_temp_diff(sd.temperature, habitat)
          [] i = 8  -> compute_humidity_diff(sd.humidity, habitat)
          [] i = 9  -> Frac(0, 1)
          [] OTHER  -> rolling_average(sd, i - 10)]

\* One call of tflite_run_inference: the 15 inputs handed over, and the
\* return value and the three outputs that came back.
NoInferCall == [made |-> FALSE]

InferCall(input, infer) ==
    [made |-> TRUE, input |-> input, ret |-> infer.ret, output |-> infer.output]

\* static struct ml_analysis_result ml_result: zero-initialised.
ZeroResult ==
    [health_status |-> 0, confidence |-> 0,
     environmental_mismatch |->
        [temperature |-> FALSE, humidity |-> FALSE,
         soil_moisture |-> FALSE, light_level |-> FALSE],
     recommendation |-> <<>>]

\* snprintf(recommendation + written, ...): the buffer keeps what lies before
\* offset `written` and ends after the new piece.  buf is the sequence of the
\* pieces the string consists of, written the number of pieces before the
\* offset.  The longest text is 92 characters, below the 256 of the buffer.
snprintf_at(buf, written, piece) == SubSeq(buf, 1, written) \o <<piece>>

\* Each snprintf that runs writes at the end of what this call wrote before;
\* when none runs the buffer is not touched.
generate_recommendations(result) ==
    LET m  == result.environmental_mismatch
        r0 == result.recommendation
        r1 == IF m.temperature   THEN snprintf_at(r0, 0, "Adjust temperature. ") ELSE r0
        w1 == IF m.temperature   THEN 1 ELSE 0
        r2 == IF m.humidity      THEN snprintf_at(r1, w1, "Adjust humidity level. ") ELSE r1
        w2 == IF m.humidity      THEN w1 + 1 ELSE w1
        r3 == IF m.soil_moisture THEN snprintf_at(r2, w2, "Adjust watering schedule. ") ELSE r2
        w3 == IF m.soil_moisture THEN w2 + 1 ELSE w2
        r4 == IF m.light_level   THEN snprintf_at(r3, w3, "Adjust light exposure. ") ELSE r3
    IN  IF result.health_status = ML_HEALTH_HEALTHY
          THEN [result EXCEPT !.recommendation = snprintf_at(r0, 0, "Plant is healthy. ")]
          ELSE [result EXCEPT !.recommendation = r4]

\* The search in which a later class wins also when equal.
health_argmax_last_wins(model_output) ==
    LET c1 == IF model_output[2] >= model_output[1] THEN 1 ELSE 0
        m1 == IF model_output[2] >= model_output[1] THEN model_output[2] ELSE model_output[1]
    IN  IF model_output[3] >= m1
          THEN [health_class |-> 2, max_prob |-> model_output[3]]
          ELSE [health_class |-> c1, max_prob |-> m1]

\* The class with the highest probability; a later class wins only when
\* strictly greater.
health_argmax(model_output) ==
    LET c1 == IF model_output[2] > model_output[1] THEN 1 ELSE 0
        m1 == IF model_output[2] > model_output[1] THEN model_output[2] ELSE model_output[1]
    IN  IF model_output[3] > m1
          THEN [health_class |-> 2, max_prob |-> model_output[3]]
          ELSE [health_class |-> c1, max_prob |-> m1]

\* The analysis that stores the mismatch flags before it runs the inference,
\* so that they are stored also when the inference fails.
ml_analyze_plant_health_flags_first(sd, habitat, result, infer) ==
    LET flagged == [result EXCEPT
            !.environmental_mismatch =
                [temperature   |-> is_temp_mismatch(sd.temperature, habitat),
                 humidity      |-> is_humidity_mismatch(sd.humidity, habitat),
                 soil_moisture |-> is_moisture_mismatch(sd.soil_moisture, habitat),
                 light_level   |-> is_light_mismatch(sd.light_level, habitat)]]
    IN  IF infer.ret < 0
          THEN [ret |-> infer.ret, result |-> flagged,
                infer_call |-> InferCall(model_input(sd, habitat), infer)]
          ELSE LET best == health_argmax(infer.output)
                   filled == [flagged EXCEPT !.health_status = best.health_class,
                                             !.confidence    = best.max_prob]
               IN  [ret |-> 0, result |-> generate_recommendations(filled),
                    infer_call |-> InferCall(model_input(sd, habitat), infer)]

\* infer: what tflite_run_inference returns for model_input(sd, habitat):
\* [ret, output], output the three probabilities (in percent).  On failure
\* result_out is not touched.
ml_analyze_plant_health(sd, habitat, result, infer) ==
    IF infer.ret < 0
      THEN [ret |-> infer.ret, result |-> result,
            infer_call |-> InferCall(model_input(sd, habitat), infer)]
      ELSE LET best == health_argmax(infer.output)
               filled == [result EXCEPT
                   !.environmental_mismatch =
                       [temperature   |-> is_temp_mismatch(sd.temperature, habitat),
                        humidity      |-> is_humidity_mismatch(sd.humidity, habitat),
                        soil_moisture |-> is_moisture_mismatch(sd.soil_moisture, habitat),
                        light_level   |-> is_light_mismatch(sd.light_level, habitat)],
                   !.health_status = best.health_class,
                   !.confidence    = best.max_prob]
           IN  [ret |-> 0, result |-> generate_recommendations(filled),
                infer_call |-> InferCall(model_input(sd, habitat), infer)]

----------------------------------------------------------------------------
(* platform/esp32/connectivity.c *)

MAX_CONNECTION_RETRIES == 3

\* K_SECONDS(5), in seconds.
CONNECTION_RETRY_DELAY == 5

\* K_HOURS(1), in seconds.
RECONNECTION_INTERVAL == 3600

\* The statics of the connectivity layer as one value.
WifiState(connected, count, reprovisioning, work) ==
    [is_connected |-> connected, retry_count |-> count,
     in_reprovisioning_mode |-> reprovisioning, reconnect_work |-> work]

\* k_work_schedule: a work item that is already pending keeps its time.
k_work_schedule(work, now, delay) ==
    IF work.pending THEN work ELSE [pending |-> TRUE, due |-> now + delay]

\* connectivity_connect: retry_count and in_reprovisioning_mode are reset
\* before anything else, whatever the call then returns.
connectivity_connect(w) ==
    [w EXCEPT !.retry_count = 0, !.in_reprovisioning_mode = FALSE]

\* enter_reprovisioning_mode: the flag is set and start_reprovisioning called
\* unless the flag is set already.  started tells whether
\* ble_restart_advertising was called.
enter_reprovisioning_mode(w) ==
    IF w.in_reprovisioning_mode
      THEN [w |-> w, started |-> FALSE]
      ELSE [w |-> [w EXCEPT !.in_reprovisioning_mode = TRUE], started |-> TRUE]

\* reconnect_work_handler at time now; w.reconnect_work is the item after it
\* has been taken off the queue.  connect_ret is what connectivity_connect
\* returns.
reconnect_work_handler(w, now, connect_ret) ==
    IF w.is_connected
      THEN [w |-> [w EXCEPT !.retry_count = 0], attempted |-> FALSE, started |-> FALSE]
      ELSE LET c == connectivity_connect(w)
           IN  IF connect_ret >= 0
                 THEN [w |-> c, attempted |-> TRUE, started |-> FALSE]
                 ELSE LET counted == [c EXCEPT !.retry_count = c.retry_count + 1]
                          e == enter_reprovisioning_mode(counted)
                      IN  IF counted.retry_count < MAX_CONNECTION_RETRIES
                            THEN [w |-> [counted EXCEPT !.reconnect_work =
                                            k_work_schedule(counted.reconnect_work, now,
                                                            CONNECTION_RETRY_DELAY)],
                                  attempted |-> TRUE, started |-> FALSE]
                            ELSE [w |-> [e.w EXCEPT !.reconnect_work =
                                            k_work_schedule(e.w.reconnect_work, now,
                                                            RECONNECTION_INTERVAL)],
                                  attempted |-> TRUE, started |-> e.started]

\* wifi_mgmt_event_handler for NET_EVENT_WIFI_CONNECT_RESULT (connected true)
\* and NET_EVENT_WIFI_DISCONNECT_RESULT (connected false).
wifi_mgmt_event_handler(w, connected, now) ==
    IF connected
      THEN [w EXCEPT !.is_connected = TRUE, !.retry_count = 0]
      ELSE [w EXCEPT !.is_connected = FALSE,
                     !.reconnect_work =
                         IF w.in_reprovisioning_mode THEN w.reconnect_work
                         ELSE k_work_schedule(w.reconnect_work, now,
                                              CONNECTION_RETRY_DELAY)]

----------------------------------------------------------------------------

(* common/habitat_data.c *)

\* Returned for a cached copy older than a day; only the sign is used.
ESTALE == 116

\* The age in seconds above which a cached copy is stale.
HABITAT_CACHE_SECONDS == 86400

\* struct habitat_data in the zero state of a static.
ZeroHabitatData ==
    [plant_id |-> "",
     ideal_temperature_min   |-> 0, ideal_temperature_max   |-> 0,
     ideal_humidity_min      |-> 0, ideal_humidity_max      |-> 0,
     ideal_soil_moisture_min |-> 0, ideal_soil_moisture_max |-> 0,
     ideal_light_level_min   |-> 0, ideal_light_level_max   |-> 0,
     native_region |-> "", growing_season |-> "",
     data_valid |-> FALSE, timestamp |-> 0]

\* The eight fields of struct habitat_data that hold the four ranges.
RangeFields ==
    {"ideal_temperature_min", "ideal_temperature_max",
     "ideal_humidity_min", "ideal_humidity_max",
     "ideal_soil_moisture_min", "ideal_soil_moisture_max",
     "ideal_light_level_min", "ideal_light_level_max"}

\* The four ranges held by a struct habitat_data.
RangeOf(data) == [f \in RangeFields |-> data[f]]

\* snprintf(key_out, key_size, "%s%s_%s", "habitat/", plant_name, plant_variety)
generate_cache_key(plant_name, plant_variety) ==
    "habitat/" \o plant_name \o "_" \o plant_variety

\* storage_load_value for a key the flash may never have seen.
habitat_storage_load(store, key) ==
    IF key \in DOMAIN store THEN store[key] ELSE NotFound

\* json_parse_handler over the keys of the body: a field named in the body is
\* overwritten, a field the body does not name keeps its value.
json_parse_handler(data, body) ==
    [f \in DOMAIN data |-> IF f \in DOMAIN body THEN body[f] ELSE data[f]]

\* habitat_data_cache: the record is stored under the key made of its own
\* plant_id and native_region.
habitat_data_cache(store, data, ok) ==
    IF ~ data.data_valid
      THEN [nvs |-> store, ret |-> -EINVAL]
      ELSE storage_save_value(store,
                              generate_cache_key(data.plant_id, data.native_region),
                              data, ok)

\* habitat_data_load_cache: the record under the key made of plant_name and
\* plant_variety is read into data_out; a read that fails clears data_valid
\* only; a copy older than a day has replaced data_out when -ESTALE is
\* returned.
habitat_data_load_cache(store, plant_name, plant_variety, data_out, now) ==
    LET entry == habitat_storage_load(store,
                                      generate_cache_key(plant_name, plant_variety))
    IN  IF ~ entry.found
          THEN [ret |-> -ENOENT,
                habitat_data |-> [data_out EXCEPT !.data_valid = FALSE]]
          ELSE IF now - entry.value.timestamp > HABITAT_CACHE_SECONDS
            THEN [ret |-> -ESTALE,
                  habitat_data |-> [entry.value EXCEPT !.data_valid = FALSE]]
            ELSE [ret |-> 0, habitat_data |-> entry.value]

\* habitat_data_fetch.  http is what the request meets: [ret, status, body],
\* ret negative when the name lookup, the socket, the connection, the request
\* or the wait for the answer fails.  Without a link the cached copy is
\* loaded instead.  After a 200 the body is parsed into data_out, whose
\* data_valid and timestamp are set whatever the body held, and the record is
\* cached; a failed save is only logged.
habitat_data_fetch(store, connected, plant_name, plant_variety, data_out, now, http, save_ok) ==
    IF ~ connected
      THEN LET l == habitat_data_load_cache(store, plant_name, plant_variety,
                                            data_out, now)
           IN  [ret |-> l.ret, habitat_data |-> l.habitat_data, nvs |-> store]
      ELSE IF http.ret < 0
        THEN [ret |-> http.ret, habitat_data |-> data_out, nvs |-> store]
        ELSE IF http.status # 200
          THEN [ret |-> -EINVAL, habitat_data |-> data_out, nvs |-> store]
          ELSE LET parsed == json_parse_handler(data_out, http.body)
                   data   == [parsed EXCEPT !.data_valid = TRUE,
                                            !.timestamp  = now]
               IN  [ret |-> 0, habitat_data |-> data,
                    nvs |-> habitat_data_cache(store, data, save_ok).nvs]

----------------------------------------------------------------------------

(* common/plant_analysis.c *)

\* ml_load_sensor_history on the first call: the stored history, or a zeroed
\* one when the key is not found; a read that fails otherwise (ok false)
\* returns the error and leaves the history as it was.
ml_load_sensor_history(store, sd, ok) ==
    IF ~ ok
      THEN [ret |-> -EIO, sensor_data |-> sd]
      ELSE IF store["sensor_history"].found
        THEN [ret |-> 0, sensor_data |-> store["sensor_history"].value]
        ELSE [ret |-> 0, sensor_data |-> ZeroSensorData]

\* The eight assignments of the default ranges and data_valid = true.
set_default_habitat(data) ==
    [f \in DOMAIN data |->
        IF f \in RangeFields THEN DefaultHabitat[f]
        ELSE IF f = "data_valid" THEN TRUE
        ELSE data[f]]

\* The habitat step of plant_analysis_process_reading: the fetch; when it
\* fails the cached copy; when that fails too the defaults.  source tells
\* which of the three filled habitat_data.
plant_analysis_habitat(store, connected, plant_name, plant_variety, data, now, http, save_ok) ==
    LET f == habitat_data_fetch(store, connected, plant_name, plant_variety,
                                data, now, http, save_ok)
        l == habitat_data_load_cache(f.nvs, plant_name, plant_variety,
                                     f.habitat_data, now)
    IN  IF f.ret >= 0
          THEN [source |-> IF connected THEN "fetch" ELSE "cache",
                habitat_data |-> f.habitat_data, nvs |-> f.nvs]
          ELSE IF l.ret >= 0
            THEN [source |-> "cache", habitat_data |-> l.habitat_data,
                  nvs |-> f.nvs]
            ELSE [source |-> "default",
                  habitat_data |-> set_default_habitat(l.habitat_data),
                  nvs |-> f.nvs]

\* habitat: what habitat_data_fetch (or, after it failed, the cached copy)
\* delivers: [ret, range]; when both fail the defaults are set.
habitat_or_default(hd, habitat) ==
    IF habitat.ret < 0 THEN DefaultHabitat ELSE habitat.range

\* A call of a save or load function and what it returned, or no call.
NoFlashCall == [made |-> FALSE, ret |-> 0]

FlashCall(ret) == [made |-> TRUE, ret |-> ret]

\* The analysis giving up, with the error of the save, when the history could
\* not be saved.
plant_analysis_process_reading_save_fatal(sd, lhu, loaded, hd, result, store, r, now, in) ==
    LET ld  == IF loaded THEN [ret |-> 0, sensor_data |-> sd]
                         ELSE ml_load_sensor_history(store, sd, in.load_hist_ok)
        add == ml_add_sensor_reading(ld.sensor_data, lhu, r, now)
        sv  == ml_save_sensor_history(store, add.sensor_data, in.save_hist_ok)
        hab == habitat_or_default(hd, in.habitat)
        an  == ml_analyze_plant_health(add.sensor_data, hab, result, in.infer)
    IN  [ret                |-> IF sv.ret < 0 THEN sv.ret ELSE an.ret,
         sensor_data        |-> add.sensor_data,
         last_hourly_update |-> add.last_hourly_update,
         history_loaded     |-> TRUE,
         habitat_data       |-> IF sv.ret < 0 THEN hd ELSE hab,
         ml_result          |-> IF sv.ret < 0 THEN result ELSE an.result,
         infer_call         |-> IF sv.ret < 0 THEN NoInferCall ELSE an.infer_call,
         hist_load          |-> IF loaded THEN NoFlashCall ELSE FlashCall(ld.ret),
         hist_save          |-> FlashCall(sv.ret),
         nvs                |-> sv.nvs]

\* in: the outcomes of the capabilities called: load_hist_ok, save_hist_ok,
\* habitat, infer.
plant_analysis_process_reading(sd, lhu, loaded, hd, result, store, r, now, in) ==
    LET ld  == IF loaded THEN [ret |-> 0, sensor_data |-> sd]
                         ELSE ml_load_sensor_history(store, sd, in.load_hist_ok)
        add == ml_add_sensor_reading(ld.sensor_data, lhu, r, now)
        sv  == ml_save_sensor_history(store, add.sensor_data, in.save_hist_ok)
        hab == habitat_or_default(hd, in.habitat)
        an  == ml_analyze_plant_health(add.sensor_data, hab, result, in.infer)
    IN  [ret                |-> an.ret,
         sensor_data        |-> add.sensor_data,
         last_hourly_update |-> add.last_hourly_update,
         history_loaded     |-> TRUE,
         habitat_data       |-> hab,
         ml_result          |-> an.result,
         infer_call         |-> an.infer_call,
         hist_load          |-> IF loaded THEN NoFlashCall ELSE FlashCall(ld.ret),
         hist_save          |-> FlashCall(sv.ret),
         nvs                |-> sv.nvs]

\* "temp,humid,moist,light" without the trailing comma, or "none": the
\* sequence of the names written.
plant_analysis_get_mismatch_string(result) ==
    LET m == result.environmental_mismatch
        s == (IF m.temperature   THEN <<"temp">>  ELSE <<>>) \o
             (IF m.humidity      THEN <<"humid">> ELSE <<>>) \o
             (IF m.soil_moisture THEN <<"moist">> ELSE <<>>) \o
             (IF m.light_level   THEN <<"light">> ELSE <<>>)
    IN  IF s = <<>> THEN <<"none">> ELSE s

plant_analysis_get_status_string(result) ==
    LET m == result.environmental_mismatch
    IN  IF result.health_status = ML_HEALTH_CRITICAL THEN "Critical"
        ELSE IF result.health_status = ML_HEALTH_STRESSED THEN "Stressed"
        ELSE IF m.temperature \/ m.humidity \/ m.soil_moisture \/ m.light_level
               THEN "Adjustment Needed"
               ELSE "Healthy"

----------------------------------------------------------------------------
(* common/water_analysis.c: the moisture history *)

WaterSlots == 0 .. (WATER_HISTORY_SIZE - 1)

\* memset(&water_pattern, 0, ...) of water_analysis_init.
ZeroWaterHistory ==
    [moisture   |-> [i \in WaterSlots |-> 0],
     timestamps |-> [i \in WaterSlots |-> 0],
     index      |-> 0,
     filled     |-> FALSE]

\* An add that is throttled like the hourly channel histories: a sample that
\* comes less than an hour after the one before is not stored.
water_analysis_add_reading_hourly(wh, moisture, timestamp) ==
    LET next == (wh.index + 1) % WATER_HISTORY_SIZE
        prev == (wh.index + WATER_HISTORY_SIZE - 1) % WATER_HISTORY_SIZE
        none == wh.index = 0 /\ ~ wh.filled
    IN  IF ~ none /\ timestamp - wh.timestamps[prev] < HOUR_SECONDS
          THEN wh
          ELSE [moisture   |-> [wh.moisture   EXCEPT ![wh.index] = moisture],
                timestamps |-> [wh.timestamps EXCEPT ![wh.index] = timestamp],
                index      |-> next,
                filled     |-> IF next = 0 THEN TRUE ELSE wh.filled]

\* filled following the cursor: true only while the cursor is at 0.
water_analysis_add_reading_filled_at_zero(wh, moisture, timestamp) ==
    LET next == (wh.index + 1) % WATER_HISTORY_SIZE
    IN  [moisture   |-> [wh.moisture   EXCEPT ![wh.index] = moisture],
         timestamps |-> [wh.timestamps EXCEPT ![wh.index] = timestamp],
         index      |-> next,
         filled     |-> next = 0]

water_analysis_add_reading(wh, moisture, timestamp) ==
    LET next == (wh.index + 1) % WATER_HISTORY_SIZE
    IN  [moisture   |-> [wh.moisture   EXCEPT ![wh.index] = moisture],
         timestamps |-> [wh.timestamps EXCEPT ![wh.index] = timestamp],
         index      |-> next,
         filled     |-> IF next = 0 THEN TRUE ELSE wh.filled]

\* The non-history fields of water_pattern, never written by the module: zero.
\* prediction_confidence is 0, 100, or the product the code computes,
\*   min(1, count / 72) * min(1, 1 / (1 + 10 * sqrt(variance) / rate)) * 100,
\* kept as its three ingredients.  hourly_decline_rate is the local of that
\* name; total_decline and count are the locals it is the quotient of.
ConfidenceZero == [kind |-> "zero"]

ConfidenceFull == [kind |-> "full"]

\* The confidence with the quantity factor left uncapped: count / 72.
ConfidenceComputed_uncapped(count, variance, rate) ==
    [kind     |-> "computed",
     quantity |-> Frac(count, FULL_CONFIDENCE_SAMPLES),
     variance |-> variance,
     rate     |-> rate]

ConfidenceComputed(count, variance, rate) ==
    [kind     |-> "computed",
     quantity |-> Frac(Min(count, FULL_CONFIDENCE_SAMPLES), FULL_CONFIDENCE_SAMPLES),
     variance |-> variance,
     rate     |-> rate]

NoPrediction ==
    [daily_consumption_rate  |-> Frac(0, 1),
     declining_consumption   |-> FALSE,
     next_watering_timestamp |-> 0,
     prediction_confidence   |-> ConfidenceZero,
     hourly_decline_rate     |-> Frac(0, 1),
     total_decline           |-> 0,
     count                   |-> 0]

\* prediction_confidence == 0.0f
ConfidenceIsZero(c) ==
    \/ c.kind = "zero"
    \/ c.kind = "computed" /\ ~ FracLess(Frac(1, 1000), c.rate)

\* prediction_confidence > 30.0f.  With q the quantity factor and r the rate,
\* q * 100 / (1 + 10 * sd / r) > 30 iff (10 q - 3) r > 30 sd, which is decided
\* on the squares.
ConfidenceAboveUploadLevel(c) ==
    CASE c.kind = "zero" -> FALSE
      [] c.kind = "full" -> 100 > UPLOAD_CONFIDENCE
      [] OTHER ->
           LET a == Frac((100 * c.quantity.num - UPLOAD_CONFIDENCE * c.quantity.den)
                             * c.rate.num,
                         c.quantity.den * c.rate.den)
           IN  /\ FracLess(Frac(1, 1000), c.rate)
               /\ a.num > 0
               /\ FracLess(Frac(100 * UPLOAD_CONFIDENCE * UPLOAD_CONFIDENCE
                                    * c.variance.num, c.variance.den),
                           Frac(a.num * a.num, a.den * a.den))

\* Number of samples the history holds.
water_stored_samples(wh) == IF wh.filled THEN WATER_HISTORY_SIZE ELSE wh.index

water_start_idx(wh) == (wh.index + WATER_HISTORY_SIZE - 1) % WATER_HISTORY_SIZE

\* current_idx and prev_idx of the i-th pair walked backward from start_idx.
water_current_idx(wh, i) ==
    (water_start_idx(wh) - i + WATER_HISTORY_SIZE) % WATER_HISTORY_SIZE

water_prev_idx(wh, i) ==
    (water_current_idx(wh, i) - 1 + WATER_HISTORY_SIZE) % WATER_HISTORY_SIZE

water_time_diff(wh, i) ==
    wh.timestamps[water_current_idx(wh, i)] - wh.timestamps[water_prev_idx(wh, i)]

water_moisture_diff(wh, i) ==
    wh.moisture[water_prev_idx(wh, i)] - wh.moisture[water_current_idx(wh, i)]

\* Sum of f[lo] .. f[hi], by halves.
RECURSIVE SumRange(_, _, _)
SumRange(f, lo, hi) ==
    IF lo > hi THEN 0
    ELSE IF lo = hi THEN f[lo]
    ELSE LET mid == (lo + hi) \div 2
         IN  SumRange(f, lo, mid) + SumRange(f, mid + 1, hi)

\* time_diff and moisture_diff of the pairs 0 .. n - 1, newest pair first.
water_pairs(wh, n) ==
    [i \in 0 .. (n - 1) |-> [time_diff     |-> water_time_diff(wh, i),
                             moisture_diff |-> water_moisture_diff(wh, i)]]

\* The test with an hour as the limit of time_diff: samples an hour apart are
\* not sequential.
water_pair_usable_within_hour(p) ==
    p.time_diff > 0 /\ p.time_diff < HOUR_SECONDS /\ p.moisture_diff > 0

\* The test of the first loop's if: the pair adds to total_decline and count.
water_pair_usable(p) ==
    p.time_diff > 0 /\ p.time_diff < MAX_PAIR_SECONDS /\ p.moisture_diff > 0

water_pair_breaks_either_way(p) ==
    p.moisture_diff < - WATERING_RISE \/ p.moisture_diff > WATERING_RISE

\* The test of its else-if: a watering event, at which the loop breaks.
water_pair_breaks(p) ==
    ~ water_pair_usable(p) /\ p.moisture_diff < - WATERING_RISE

water_walk_end_never(pairs, n) == n

\* The pair at which the first loop over pairs 0 .. n - 1 ends: the first one
\* that breaks it, or n.
water_walk_end(pairs, n) ==
    LET breaks == {i \in 0 .. (n - 1) : water_pair_breaks(pairs[i])}
    IN  IF breaks = {} THEN n
        ELSE CHOOSE i \in breaks : \A j \in breaks : i <= j

\* The first loop: total_decline and count when it ends.
water_decline_walk(pairs, n) ==
    LET end  == water_walk_end(pairs, n)
        used == {i \in 0 .. (end - 1) : water_pair_usable(pairs[i])}
        diff == [i \in 0 .. (end - 1) |->
                    IF i \in used THEN pairs[i].moisture_diff ELSE 0]
    IN  [total_decline |-> SumRange(diff, 0, end - 1),
         count         |-> Cardinality(used)]

\* Sum of the positive moisture diffs of the pairs from .. to - 1.
water_positive_sum(pairs, from, to) ==
    SumRange([i \in from .. (to - 1) |->
                 IF pairs[i].moisture_diff > 0 THEN pairs[i].moisture_diff ELSE 0],
             from, to - 1)

\* declining_consumption: second_half_rate < first_half_rate.
water_declining(pairs, count) ==
    LET halfway == count \div 2
    IN  /\ count >= MIN_WATER_SAMPLES
        /\ FracLess(Frac(water_positive_sum(pairs, 0, halfway), halfway),
                    Frac(water_positive_sum(pairs, halfway, count), count - halfway))

\* variance_sum * count^2: the squared deviations (diff - total / count) of the
\* positive diffs among the first `count` pairs, times count^2.
water_variance_sum(pairs, count, total) ==
    SumRange([i \in 0 .. (count - 1) |->
                 LET dev == pairs[i].moisture_diff * count - total
                 IN  IF pairs[i].moisture_diff > 0 THEN dev * dev ELSE 0],
             0, count - 1)

water_insufficient_one_short(wh) == ~ wh.filled /\ wh.index < MIN_WATER_SAMPLES - 1

\* "Need at least 48 samples (2 days)": the test that returns early.
water_insufficient(wh) == ~ wh.filled /\ wh.index < MIN_WATER_SAMPLES

water_at_or_above_threshold(current_moisture, moisture_threshold) ==
    current_moisture >= moisture_threshold

\* "Calculate hours until threshold is reached" applies: the moisture is
\* still above the threshold.
water_above_threshold(current_moisture, moisture_threshold) ==
    current_moisture > moisture_threshold

\* The function from the first loop's result w = [total_decline, count] on.
water_forecast(pairs, w, current_moisture, moisture_threshold, now) ==
    LET rate  == IF w.count > 0 THEN Frac(w.total_decline, w.count) ELSE Frac(0, 1)
        daily == Frac(rate.num * 24, rate.den)
        base  == [daily_consumption_rate  |-> daily,
                  declining_consumption   |-> water_declining(pairs, w.count),
                  next_watering_timestamp |-> 0,
                  prediction_confidence   |-> ConfidenceZero,
                  hourly_decline_rate     |-> rate,
                  total_decline           |-> w.total_decline,
                  count                   |-> w.count]
    IN  IF FracLess(Frac(1, 100), daily)
          THEN IF water_above_threshold(current_moisture, moisture_threshold)
                 THEN [base EXCEPT
                         !.next_watering_timestamp =
                             now + (((current_moisture - moisture_threshold)
                                        * 3600 * w.count) \div w.total_decline),
                         !.prediction_confidence =
                             ConfidenceComputed(w.count,
                                 Frac(water_variance_sum(pairs, w.count, w.total_decline),
                                      w.count * w.count * w.count),
                                 rate)]
                 ELSE [base EXCEPT !.next_watering_timestamp = now,
                                   !.prediction_confidence = ConfidenceFull]
          ELSE base

\* The function from the pairs of the stored samples on.
water_predict_pairs(pairs, n, current_moisture, moisture_threshold, now) ==
    water_forecast(pairs, water_decline_walk(pairs, n),
                   current_moisture, moisture_threshold, now)

water_analysis_predict_watering(wh, current_moisture, moisture_threshold, now) ==
    IF water_insufficient(wh)
      THEN NoPrediction
      ELSE water_predict_pairs(water_pairs(wh, water_stored_samples(wh) - 1),
                               water_stored_samples(wh) - 1,
                               current_moisture, moisture_threshold, now)

----------------------------------------------------------------------------
(* main.c: sensor_work_handler *)

\* What firebase_send_sensor_data is handed for a cached entry or the live
\* reading.
Payload(e) ==
    [soil_moisture |-> e.soil_moisture, light_level |-> e.light_level,
     temperature |-> e.temperature, humidity |-> e.humidity,
     air_movement |-> e.air_movement, timestamp |-> e.timestamp,
     health_status |-> e.health_status, env_mismatch |-> e.env_mismatch,
     plant_status |-> e.plant_status]

\* One call of firebase_send_sensor_data and its outcome.
Upload(kind, payload, recommendation, ok) ==
    [kind |-> kind, payload |-> payload, recommendation |-> recommendation, ok |-> ok]

\* The indices from i to n - 1 whose data_cache_get_reading succeeds.
cached_readable(st, i, n) ==
    {k \in i .. (n - 1) : data_cache_get_reading(st, k).ret = 0}

\* The uploads of the indices of set S, in increasing order.
cached_uploads(st, S, recommendation, fail_at) ==
    LET Member(k) == k \in S
        order == SelectSeq([j \in 1 .. MAX_CACHED_ENTRIES |-> j - 1], Member)
    IN  [j \in 1 .. Len(order) |->
            Upload("cached", Payload(data_cache_get_reading(st, order[j]).reading),
                   recommendation, order[j] # fail_at)]

\* The loop without its break: a failed upload sets all_sent to false and the
\* loop goes on to the next entry.
send_cached_loop_no_break(st, i, n, recommendation, fail_at) ==
    LET readable == cached_readable(st, i, n)
    IN  [uploads  |-> cached_uploads(st, readable, recommendation, fail_at),
         all_sent |-> fail_at \notin readable]

\* The for loop over the cached readings from index i on (n = cache_count read
\* before the loop).  An index whose get fails is passed over; the upload of
\* index fail_at is the one the sink refuses, and the loop breaks there.
send_cached_loop(st, i, n, recommendation, fail_at) ==
    LET readable == cached_readable(st, i, n)
        tried    == {k \in readable : fail_at \in readable => k <= fail_at}
    IN  [uploads  |-> cached_uploads(st, tried, recommendation, fail_at),
         all_sent |-> fail_at \notin readable]

\* The drain clearing the cache whatever the loop reported.
send_cached_always_clear(st, store, recommendation, in) ==
    IF data_cache_count(st) > 0
      THEN LET sent == send_cached_loop(st, 0, data_cache_count(st),
                                        recommendation, in.fail_at)
               clr  == data_cache_clear(st)
               sv   == data_cache_save(clr, store, in.save_meta_ok, in.save_data_ok)
           IN  [uploads |-> sent.uploads, cleared |-> TRUE,
                st |-> CacheState(clr.cache, clr.cache_head, clr.cache_count),
                save |-> FlashCall(sv.ret), nvs |-> sv.nvs]
      ELSE [uploads |-> <<>>, cleared |-> FALSE, st |-> st, save |-> NoFlashCall,
            nvs |-> store]

\* "First, try to send any cached data": the loop, then clear and save when
\* all_sent.
send_cached(st, store, recommendation, in) ==
    IF data_cache_count(st) > 0
      THEN LET sent == send_cached_loop(st, 0, data_cache_count(st),
                                        recommendation, in.fail_at)
               clr  == data_cache_clear(st)
               sv   == data_cache_save(clr, store, in.save_meta_ok, in.save_data_ok)
           IN  IF sent.all_sent
                 THEN [uploads |-> sent.uploads, cleared |-> TRUE,
                       st |-> CacheState(clr.cache, clr.cache_head, clr.cache_count),
                       save |-> FlashCall(sv.ret), nvs |-> sv.nvs]
                 ELSE [uploads |-> sent.uploads, cleared |-> FALSE,
                       st |-> st, save |-> NoFlashCall, nvs |-> store]
      ELSE [uploads |-> <<>>, cleared |-> FALSE, st |-> st, save |-> NoFlashCall,
            nvs |-> store]

\* The connected branch that uploads the current data only after a drain in
\* which no upload failed.
send_to_firebase_live_after_clean_drain(st, store, live, recommendation, in) ==
    LET c == send_cached(st, store, recommendation, in)
        failed == \E i \in 1 .. Len(c.uploads) : ~ c.uploads[i].ok
    IN  [uploads  |-> IF failed THEN c.uploads
                      ELSE c.uploads \o <<Upload("live", live, recommendation, in.live_ok)>>,
         cleared  |-> c.cleared,
         enqueued |-> FALSE,
         st       |-> c.st,
         save     |-> c.save,
         nvs      |-> c.nvs]

\* The connected branch: cached data first, then the current data.
send_to_firebase(st, store, live, recommendation, in) ==
    LET c == send_cached(st, store, recommendation, in)
    IN  [uploads  |-> c.uploads \o <<Upload("live", live, recommendation, in.live_ok)>>,
         cleared  |-> c.cleared,
         enqueued |-> FALSE,
         st       |-> c.st,
         save     |-> c.save,
         nvs      |-> c.nvs]

\* The offline branch: cache the data and save the cache.
cache_offline(st, store, live, in) ==
    LET a  == data_cache_add_reading(st, live, live.timestamp, live.health_status,
                                     live.env_mismatch, live.plant_status)
        a_st == CacheState(a.cache, a.cache_head, a.cache_count)
        sv == data_cache_save(a_st, store, in.save_meta_ok, in.save_data_ok)
    IN  [uploads  |-> <<>>,
         cleared  |-> FALSE,
         enqueued |-> a.ret >= 0,
         st       |-> a_st,
         save     |-> IF a.ret < 0 THEN NoFlashCall ELSE FlashCall(sv.ret),
         nvs      |-> IF a.ret < 0 THEN store ELSE sv.nvs]

\* The current reading with the analysis summary, as uploaded or cached.
LiveData(r, timestamp, result) ==
    [soil_moisture |-> r.soil_moisture, light_level |-> r.light_level,
     temperature |-> r.temperature, humidity |-> r.humidity,
     air_movement |-> r.air_movement, timestamp |-> timestamp,
     health_status |-> result.health_status,
     env_mismatch |-> plant_analysis_get_mismatch_string(result),
     plant_status |-> plant_analysis_get_status_string(result)]

\* A call of data_cache_get_reading made for its own sake, and what it
\* returned.
NoCacheGet == [made |-> FALSE]

CacheGetCall(index, got) == [made |-> TRUE, index |-> index, got |-> got]

\* tick_out before the first tick.
\* tick_out: sensor_ok, whether sensors_read succeeded; processed, whether
\* plant_analysis_process_reading was called, and analysis_ret what it returned;
\* online, what connectivity_is_connected answered; uploads, the calls of
\* firebase_send_sensor_data in order; cleared and enqueued, whether
\* data_cache_clear and data_cache_add_reading ran; live, the current data;
\* infer_call, the call of tflite_run_inference; prediction, the local
\* water_pattern after water_analysis_predict_watering; water_sent, whether
\* firebase_send_water_prediction was called; hist_load, hist_save, water_save
\* and cache_save, the calls of ml_load_sensor_history, ml_save_sensor_history,
\* water_analysis_save and data_cache_save; reboot, the sys_reboot the run
\* ended with ("warm", "cold") or "none"; scheduled, whether it ended with
\* k_work_schedule.
NoTick ==
    [sensor_ok |-> FALSE, processed |-> FALSE, analysis_ret |-> 0, online |-> FALSE,
     uploads |-> <<>>, cleared |-> FALSE, enqueued |-> FALSE, live |-> <<>>,
     infer_call |-> NoInferCall, prediction |-> NoPrediction, water_sent |-> FALSE,
     hist_load |-> NoFlashCall, hist_save |-> NoFlashCall,
     water_save |-> NoFlashCall, cache_save |-> NoFlashCall,
     reboot |-> "none", scheduled |-> FALSE, cache_get |-> NoCacheGet]

TickOut(sensor_ok, processed, analysis_ret, online, uploads, cleared, enqueued, live) ==
    [NoTick EXCEPT !.sensor_ok = sensor_ok, !.processed = processed,
                   !.analysis_ret = analysis_ret, !.online = online,
                   !.uploads = uploads, !.cleared = cleared,
                   !.enqueued = enqueued, !.live = live]

\* The part of the handler that follows a successful analysis.
\* The tick's record with the prediction: it is sent when the tick is online
\* and its confidence is above 30.
TickOutPredicted(out, wp) ==
    [out EXCEPT !.prediction = wp,
                !.water_sent = out.online
                                 /\ ConfidenceAboveUploadLevel(wp.prediction_confidence)]

after_analysis(st, wh, store, online, r, now, result, in) ==
    LET live == LiveData(r, now, result)
        wh2  == water_analysis_add_reading(wh, r.soil_moisture, now)
        wsv  == water_analysis_save(store, wh2, in.save_water_ok)
        b    == IF online
                  THEN send_to_firebase(st, wsv.nvs, live, result.recommendation, in)
                  ELSE cache_offline(st, wsv.nvs, live, in)
    IN  [st |-> b.st, water_history |-> wh2, nvs |-> b.nvs,
         out |-> TickOutPredicted(
                     [TickOut(TRUE, TRUE, 0, online, b.uploads, b.cleared, b.enqueued, live)
                         EXCEPT !.water_save = FlashCall(wsv.ret),
                                !.cache_save = b.save],
                     water_analysis_predict_watering(wh2, r.soil_moisture,
                                                     WATERING_THRESHOLD, now))]

\* "Check for button press requests": the reboot the run ends with.
button_reboot ==
    IF reset_requested THEN "warm"
    ELSE IF factory_reset_requested THEN "cold"
    ELSE "none"

\* The flash at the end of the run: a factory reset deletes the configuration
\* before it reboots.
flash_at_end(store, in) ==
    IF button_reboot = "cold"
      THEN storage_reset_device_config(store, in.reset_config_ok)
      ELSE store

\* A run that returns without k_work_schedule when the analysis failed.
run_end_return_on_failed_analysis(out) ==
    [out EXCEPT !.reboot = button_reboot,
                !.scheduled = (button_reboot = "none" /\ out.analysis_ret >= 0)]

\* The run's record completed by how the run ends: sys_reboot, or
\* k_work_schedule with SENSOR_READ_INTERVAL.
run_end(out) ==
    [out EXCEPT !.reboot = button_reboot, !.scheduled = (button_reboot = "none")]

\* The buffers whose latest save failed, after the saves of the run `out`.
unsaved_after_call(U, name, call) ==
    IF ~ call.made THEN U
    ELSE IF call.ret < 0 THEN U \cup {name}
    ELSE U \ {name}

unsaved_after(U, out) ==
    unsaved_after_call(
        unsaved_after_call(
            unsaved_after_call(U, "history", out.hist_save),
            "water", out.water_save),
        "cache", out.cache_save)

\* The state after a tick whose analysis succeeded, aa being what
\* after_analysis returned and pr what plant_analysis_process_reading did.
analysed_tick(aa, pr, in) ==
    /\ cache' = aa.st.cache
    /\ cache_head' = aa.st.cache_head
    /\ cache_count' = aa.st.cache_count
    /\ water_history' = aa.water_history
    /\ nvs' = flash_at_end(aa.nvs, in)
    /\ tick_out' = run_end([aa.out EXCEPT !.infer_call = pr.infer_call,
                                          !.hist_load = pr.hist_load,
                                          !.hist_save = pr.hist_save])
    /\ enq_log' = IF aa.out.cleared THEN <<>>
                  ELSE IF aa.out.enqueued
                    THEN Append(enq_log, aa.out.live)
                    ELSE enq_log

\* One run of sensor_work_handler at time `due` with the capability outcomes `in`.
sensor_work_handler(in) ==
    LET now == due
        st  == CacheState(cache, cache_head, cache_count)
        read_ok == in.sensor_ok /\ provisioned
    IN
    \* pr and aa are each computed once: what the two calls returned, or the
    \* empty tuple when the run does not reach the call.
    \E pr \in {IF read_ok
                  THEN plant_analysis_process_reading(sensor_data, last_hourly_update,
                           history_loaded, habitat_data, ml_result, nvs, in.reading,
                           now, in)
                  ELSE <<>>} :
    \E aa \in {IF read_ok /\ pr.ret >= 0
                  THEN after_analysis(st, water_history, pr.nvs, is_connected,
                                      in.reading, now, pr.ml_result, in)
                  ELSE <<>>} :
        /\ uptime' = now
        /\ due' = IF button_reboot = "none" THEN now + SENSOR_READ_INTERVAL ELSE due
        /\ reset_requested' = FALSE
        /\ factory_reset_requested' = FALSE
        /\ ticks' = ticks + 1
        /\ online_ticks' = IF is_connected THEN online_ticks + 1 ELSE online_ticks
        /\ IF ~ in.sensor_ok \/ ~ provisioned
             THEN /\ UNCHANGED <<cache, cache_head, cache_count, sensor_data,
                                 last_hourly_update, history_loaded, habitat_data,
                                 ml_result, water_history, enq_log>>
                  /\ nvs' = flash_at_end(nvs, in)
                  /\ tick_out' = run_end(TickOut(in.sensor_ok, FALSE, 0, FALSE, <<>>,
                                                 FALSE, FALSE, <<>>))
             ELSE /\ sensor_data' = pr.sensor_data
                  /\ last_hourly_update' = pr.last_hourly_update
                  /\ history_loaded' = pr.history_loaded
                  /\ habitat_data' = pr.habitat_data
                  /\ ml_result' = pr.ml_result
                  /\ IF pr.ret < 0
                       THEN /\ nvs' = flash_at_end(pr.nvs, in)
                            /\ UNCHANGED <<cache, cache_head, cache_count,
                                           water_history, enq_log>>
                            /\ tick_out' = run_end(
                                   [TickOut(TRUE, TRUE, pr.ret, FALSE, <<>>,
                                            FALSE, FALSE, <<>>)
                                       EXCEPT !.infer_call = pr.infer_call,
                                              !.hist_load = pr.hist_load,
                                              !.hist_save = pr.hist_save])
                       ELSE analysed_tick(aa, pr, in)
        /\ unsaved' = unsaved_after(unsaved, tick_out')
        /\ UNCHANGED <<retry_count, in_reprovisioning_mode, reconnect_work>>
        /\ UNCHANGED <<provisioned, is_connected, conn_changes, rec_log, script>>

\* The callback without the k_work_reschedule: the handler stays due when it
\* was.
connectivity_status_callback_no_reschedule(connected, delay) ==
    /\ uptime + delay <= due
    /\ uptime' = uptime + delay
    /\ is_connected' = connected
    /\ conn_changes' = conn_changes + 1
    /\ UNCHANGED <<due, online_ticks, provisioned, cache, cache_head, cache_count,
                   sensor_data, last_hourly_update, history_loaded, habitat_data,
                   ml_result, water_history, nvs, tick_out, ticks, enq_log, rec_log,
                   script, reset_requested, factory_reset_requested, unsaved,
                   retry_count, in_reprovisioning_mode, reconnect_work>>

\* connectivity_status_callback: the connectivity layer has set is_connected;
\* on a connect the work item is rescheduled to run at once.  The callback
\* comes `delay` seconds after the last handler run, before the next is due.
connectivity_status_callback(connected, delay) ==
    /\ uptime + delay <= due
    /\ uptime' = uptime + delay
    /\ is_connected' = connected
    /\ due' = IF connected THEN uptime + delay ELSE due
    /\ conn_changes' = conn_changes + 1
    /\ UNCHANGED <<online_ticks, provisioned, cache, cache_head, cache_count, sensor_data,
                   last_hourly_update, history_loaded, habitat_data, ml_result,
                   water_history, nvs, tick_out, ticks, enq_log, rec_log, script,
                   reset_requested, factory_reset_requested, unsaved,
                   retry_count, in_reprovisioning_mode, reconnect_work>>

\* provisioning_complete_callback, the configuration having been saved.
provisioning_complete_callback ==
    /\ provisioned' = TRUE
    /\ nvs' = storage_save_device_config(nvs)
    /\ UNCHANGED <<uptime, due, is_connected, cache, cache_head, cache_count,
                   sensor_data, last_hourly_update, history_loaded, habitat_data,
                   ml_result, water_history, tick_out, ticks, conn_changes,
                   online_ticks, enq_log, rec_log, script, reset_requested,
                   factory_reset_requested, unsaved,
                   retry_count, in_reprovisioning_mode, reconnect_work>>

\* A button handler that wipes the cache itself on a long press.
button_work_handler_wipes_cache(press_type, press_count) ==
    LET clr == IF press_type = BUTTON_PRESS_LONG
                 THEN data_cache_clear(CacheState(cache, cache_head, cache_count))
                 ELSE CacheState(cache, cache_head, cache_count)
    IN  /\ reset_requested' = IF press_type = BUTTON_PRESS_SHORT /\ press_count = 2
                                THEN TRUE ELSE reset_requested
        /\ factory_reset_requested' = IF press_type = BUTTON_PRESS_LONG
                                        THEN TRUE ELSE factory_reset_requested
        /\ cache' = clr.cache
        /\ cache_head' = clr.cache_head
        /\ cache_count' = clr.cache_count
        /\ UNCHANGED <<uptime, due, provisioned, is_connected, sensor_data,
                       last_hourly_update, history_loaded, habitat_data, ml_result,
                       water_history, nvs, tick_out, ticks, conn_changes,
                       online_ticks, enq_log, rec_log, script, unsaved,
                   retry_count, in_reprovisioning_mode, reconnect_work>>

\* button_work_handler: two short presses request a soft reset, a long press
\* a factory reset; one short press requests nothing.
button_work_handler(press_type, press_count) ==
    /\ reset_requested' = IF press_type = BUTTON_PRESS_SHORT /\ press_count = 2
                            THEN TRUE ELSE reset_requested
    /\ factory_reset_requested' = IF press_type = BUTTON_PRESS_LONG
                                    THEN TRUE ELSE factory_reset_requested
    /\ UNCHANGED <<uptime, due, provisioned, is_connected, cache, cache_head,
                   cache_count, sensor_data, last_hourly_update, history_loaded,
                   habitat_data, ml_result, water_history, nvs, tick_out, ticks,
                   conn_changes, online_ticks, enq_log, rec_log, script, unsaved,
                   retry_count, in_reprovisioning_mode, reconnect_work>>

\* A boot that initialises the water history and does not load it.
main_loads_without_water_load(store) ==
    [provisioned   |-> storage_load_device_config(store),
     st            |-> data_cache_load(data_cache_init, store),
     water_history |-> ZeroWaterHistory]

\* What main() makes of the flash before it schedules the first run: the
\* provisioning flag, the cache (data_cache_init, data_cache_load) and the
\* water history (water_analysis_init, water_analysis_load).
main_loads(store) ==
    [provisioned   |-> storage_load_device_config(store),
     st            |-> data_cache_load(data_cache_init, store),
     water_history |-> water_analysis_load(ZeroWaterHistory, store).water_history]

\* main() after sys_reboot: the flash is all that is left of the run before.
\* The statics are zero again, uptime restarts, the link is down until the
\* connectivity layer reports it, and sensor_work is scheduled with K_NO_WAIT.
main(b) ==
    /\ uptime' = 0
    /\ due' = 0
    /\ provisioned' = b.provisioned
    /\ is_connected' = FALSE
    /\ cache' = b.st.cache
    /\ cache_head' = b.st.cache_head
    /\ cache_count' = b.st.cache_count
    /\ water_history' = b.water_history
    /\ sensor_data' = ZeroSensorData
    /\ last_hourly_update' = 0
    /\ history_loaded' = FALSE
    /\ habitat_data' = DefaultHabitat
    /\ ml_result' = ZeroResult
    /\ reset_requested' = FALSE
    /\ factory_reset_requested' = FALSE
    /\ tick_out' = NoTick
    /\ unsaved' = {}
    /\ retry_count' = 0
    /\ in_reprovisioning_mode' = FALSE
    /\ reconnect_work' = NoWork
    /\ UNCHANGED <<nvs, ticks, conn_changes, online_ticks, enq_log, rec_log, script>>

----------------------------------------------------------------------------
(* Bounds and input sets *)

MaxTicks == 3

MaxOutageTicks == 50

MaxConnChanges == 2

MaxOnlineTicks == 2

\* Seconds between a handler run and a connectivity callback that follows it.
CallbackDelay == 30

\* The reading of the feature-vector example (inside the default ranges) and
\* a dry, hot one (moisture and temperature outside them).
ReadingInRange == Reading(40, 60, 22, 55, 10)

ReadingDryHot == Reading(20, 60, 30, 55, 10)

Readings == {ReadingInRange, ReadingDryHot}

\* A fetched habitat whose humidity range excludes ReadingInRange's 55.
TropicalHabitat ==
    [ideal_temperature_min   |-> 20, ideal_temperature_max   |-> 30,
     ideal_humidity_min      |-> 60, ideal_humidity_max      |-> 90,
     ideal_soil_moisture_min |-> 40, ideal_soil_moisture_max |-> 80,
     ideal_light_level_min   |-> 20, ideal_light_level_max   |-> 70]

HabitatUnavailable == [ret |-> -EIO, range |-> DefaultHabitat]

HabitatOutcomes == {HabitatUnavailable, [ret |-> 0, range |-> TropicalHabitat]}

InferenceFailed == [ret |-> -EFAULT, output |-> <<0, 0, 0>>]

InferHealthy == [ret |-> 0, output |-> <<70, 20, 10>>]

InferStressed == [ret |-> 0, output |-> <<20, 70, 10>>]

InferOutcomes == {InferenceFailed, InferHealthy, InferStressed}

WriteNames == {"hist", "water", "meta", "data"}

\* fail_write: the one flash write of the tick that fails ("load" is the read
\* of the history, "reset" the deletion of the configuration), or "none".
TickInput(sensor_ok, reading, habitat, infer, fail_at, live_ok, fail_write) ==
    [sensor_ok |-> sensor_ok, reading |-> reading, habitat |-> habitat,
     infer |-> infer, fail_at |-> fail_at, live_ok |-> live_ok,
     fail_write |-> fail_write,
     save_hist_ok  |-> fail_write # "hist",
     save_water_ok |-> fail_write # "water",
     save_meta_ok  |-> fail_write # "meta",
     save_data_ok  |-> fail_write # "data",
     load_hist_ok  |-> fail_write # "load",
     reset_config_ok |-> fail_write # "reset"]

NominalInput ==
    TickInput(TRUE, ReadingInRange, HabitatUnavailable, InferHealthy, -1, TRUE, "none")

\* The inputs of a tick in the current state.  Only the outcomes of the calls
\* the handler makes in this state are varied; the habitat can be fetched only
\* while connected, and every flash write succeeds.
TickInputs ==
    LET ok == InferOutcomes \ {InferenceFailed}
    IN  {[NominalInput EXCEPT !.sensor_ok = FALSE]}
        \cup
        (IF provisioned
           THEN {TickInput(TRUE, r, HabitatUnavailable, InferenceFailed, -1, TRUE, "none") :
                    r \in Readings}
                \cup
                (IF is_connected
                   THEN {TickInput(TRUE, r, h, i, fa, lo, "none") :
                            r \in Readings, h \in HabitatOutcomes, i \in ok,
                            fa \in -1 .. (cache_count - 1), lo \in BOOLEAN}
                   ELSE {TickInput(TRUE, r, HabitatUnavailable, i, -1, TRUE, "none") :
                            r \in Readings, i \in ok})
           ELSE {NominalInput})

\* A long outage: the same reading and analysis every tick, no flash failure;
\* only the sink's behaviour varies.
OutageFailPoints == {-1, 0, 2, cache_count - 1} \cap (-1 .. (cache_count - 1))

OutageInputs ==
    IF is_connected
      THEN {TickInput(TRUE, ReadingInRange, HabitatUnavailable, InferHealthy, fa, lo, "none") :
               fa \in OutageFailPoints, lo \in BOOLEAN}
      ELSE {NominalInput}

----------------------------------------------------------------------------
(* Specifications *)

InitCommon ==
    /\ is_connected = FALSE
    /\ cache = data_cache_init.cache
    /\ cache_head = data_cache_init.cache_head
    /\ cache_count = data_cache_init.cache_count
    /\ sensor_data = ZeroSensorData
    /\ last_hourly_update = 0
    /\ history_loaded = FALSE
    /\ habitat_data = DefaultHabitat
    /\ ml_result = ZeroResult
    /\ water_history = ZeroWaterHistory
    /\ nvs = FirstBootFlash(provisioned)
    /\ tick_out = NoTick
    /\ ticks = 0
    /\ conn_changes = 0
    /\ online_ticks = 0
    /\ enq_log = <<>>
    /\ reset_requested = FALSE
    /\ factory_reset_requested = FALSE
    /\ unsaved = {}
    /\ retry_count = 0
    /\ in_reprovisioning_mode = FALSE
    /\ reconnect_work = NoWork
    /\ rec_log = <<>>
    /\ script = 0

\* After main(): a first boot, provisioned or not, the work item due at once.
Init ==
    /\ provisioned \in BOOLEAN
    /\ InitCommon
    /\ uptime = 0
    /\ due = 0

Tick ==
    /\ ticks < MaxTicks
    /\ \E in \in TickInputs : sensor_work_handler(in)

ConnectivityChange ==
    /\ conn_changes < MaxConnChanges
    /\ connectivity_status_callback(~ is_connected, CallbackDelay)

Provisioning ==
    /\ ~ provisioned
    /\ provisioning_complete_callback

Next == Tick \/ ConnectivityChange \/ Provisioning

Spec == Init /\ [][Next]_vars

\* A provisioned device through a long connectivity outage that starts at boot
\* and ends in a reconnect followed by a few online ticks.
InitOutage ==
    /\ provisioned = TRUE
    /\ InitCommon
    /\ uptime = 0
    /\ due = 0

OutageTick ==
    /\ ticks < MaxOutageTicks
    /\ online_ticks < MaxOnlineTicks
    /\ \E in \in OutageInputs : sensor_work_handler(in)

\* The outage ends: the link comes up, and stays up.
OutageReconnect ==
    /\ ~ is_connected
    /\ connectivity_status_callback(TRUE, CallbackDelay)

NextOutage == OutageTick \/ OutageReconnect

SpecOutage == InitOutage /\ [][NextOutage]_vars

----------------------------------------------------------------------------
(* The history store driven call by call *)

MaxRecords == 26

MaxShortGaps == 1

MaxScript == 2

\* Seconds of uptime at which the first call can take its timestamp.
BootTimes == {0, 2}

ShortGaps == {60, HOUR_SECONDS - 1}

\* The reading of the n-th call under signal sc: sc = 0 is a constant signal,
\* the others move every channel at its own pace.
ScriptReading(sc, n) ==
    Reading(20 + ((sc * n * 7) % 50),
            30 + ((sc * n * 11) % 40),
            15 + ((sc * n * 3) % 14),
            40 + ((sc * n * 5) % 30),
            (sc * n * 2) % 9)

\* Number of calls so far that came less than an hour after the call before.
ShortGapsUsed ==
    Cardinality({i \in 1 .. (Len(rec_log) - 1) :
                    rec_log[i + 1].now - rec_log[i].now < HOUR_SECONDS})

\* One call of ml_add_sensor_reading, `gap` seconds after the previous one.
\* rec_log notes the reading, the time and whether the cursors advanced.
record(gap) ==
    LET now == uptime + gap
        r   == ScriptReading(script, Len(rec_log) + 1)
        res == ml_add_sensor_reading(sensor_data, last_hourly_update, r, now)
    IN  /\ uptime' = now
        /\ sensor_data' = res.sensor_data
        /\ last_hourly_update' = res.last_hourly_update
        /\ rec_log' = Append(rec_log,
                             [r |-> r, now |-> now,
                              appended |-> res.sensor_data.history # sensor_data.history])
        /\ UNCHANGED <<due, provisioned, is_connected, cache, cache_head, cache_count,
                       history_loaded, habitat_data, ml_result, water_history, nvs,
                       tick_out, ticks, conn_changes, online_ticks, enq_log, script,
                       reset_requested, factory_reset_requested, unsaved,
                   retry_count, in_reprovisioning_mode, reconnect_work>>

\* A provisioned device after boot, its history empty, under one of the signals.
InitHist ==
    /\ is_connected = FALSE
    /\ cache = data_cache_init.cache
    /\ cache_head = data_cache_init.cache_head
    /\ cache_count = data_cache_init.cache_count
    /\ sensor_data = ZeroSensorData
    /\ last_hourly_update = 0
    /\ history_loaded = TRUE
    /\ habitat_data = DefaultHabitat
    /\ ml_result = ZeroResult
    /\ water_history = ZeroWaterHistory
    /\ nvs = FirstBootFlash(TRUE)
    /\ tick_out = NoTick
    /\ ticks = 0
    /\ conn_changes = 0
    /\ online_ticks = 0
    /\ enq_log = <<>>
    /\ reset_requested = FALSE
    /\ factory_reset_requested = FALSE
    /\ unsaved = {}
    /\ retry_count = 0
    /\ in_reprovisioning_mode = FALSE
    /\ reconnect_work = NoWork
    /\ rec_log = <<>>
    /\ script \in 0 .. MaxScript
    /\ uptime \in BootTimes
    /\ due = uptime
    /\ provisioned = TRUE

FirstRecord ==
    /\ rec_log = <<>>
    /\ record(0)

HourlyRecord ==
    /\ rec_log # <<>>
    /\ Len(rec_log) < MaxRecords
    /\ record(HOUR_SECONDS)

EarlyRecord ==
    /\ rec_log # <<>>
    /\ Len(rec_log) < MaxRecords
    /\ ShortGapsUsed < MaxShortGaps
    /\ \E gap \in ShortGaps : record(gap)

NextHist == FirstRecord \/ HourlyRecord \/ EarlyRecord

SpecHist == InitHist /\ [][NextHist]_vars

----------------------------------------------------------------------------
(* The two recorders and the watering predictor over long sample sequences: *)
(* water_analysis_add_reading and water_analysis_predict_watering called as *)
(* main.c calls them, and ml_add_sensor_reading ahead of them as            *)
(* plant_analysis_process_reading does, at times the caller chooses.        *)

MaxSamples == 170

WaterScripts == 0 .. 8

\* Soil moisture of the n-th sample under script sc.
\*   0: constant, below the watering threshold;
\*   1: falls 1 a sample from 80 to 33, then is watered back to 80;
\*   2: falls 1 a sample from 77 to 28, then is watered back to 77;
\*   3: falls 1 a sample from 95 to 48, drops to 20, falls 1 a sample to 0,
\*      then is watered back to 95;
\*   4: falls 1 every other sample from 95, with a rise of 3 every seventh,
\*      and is watered back to 95 after 60 samples;
\*   5: 50, 49, 48, then 20 falling 1 a sample to 0, then watered back to 50;
\*   6: falls 2 a sample from 95 to 35, stays at 35 for 30 samples, falls 1 a
\*      sample to 5, then is watered back to 95;
\*   7: falls 2 a sample from 99 to 1, then is watered back to 99;
\*   8: falls 1 a sample from 95 to 16, then is watered back to 95.
WaterMoisture(sc, n) ==
    CASE sc = 0 -> 25
      [] sc = 1 -> 80 - ((n - 1) % 48)
      [] sc = 2 -> 77 - ((n - 1) % 50)
      [] sc = 3 -> LET m == ((n - 1) % 69) + 1
                   IN  IF m <= 48 THEN 96 - m ELSE 69 - m
      [] sc = 4 -> LET m == ((n - 1) % 60) + 1
                   IN  95 - (m \div 2) + (IF m % 7 = 0 THEN 3 ELSE 0)
      [] sc = 5 -> LET m == ((n - 1) % 24) + 1
                   IN  IF m <= 3 THEN 51 - m ELSE 24 - m
      [] sc = 6 -> LET m == (n - 1) % 91
                   IN  IF m <= 30 THEN 95 - 2 * m
                       ELSE IF m <= 60 THEN 35
                       ELSE 95 - m
      [] sc = 7 -> 99 - 2 * ((n - 1) % 50)
      [] OTHER  -> 95 - ((n - 1) % 80)

\* Seconds between sample n - 1 and sample n: an hour, except that script 4
\* has two hours before every fifth sample and none before every eleventh.
WaterGap(sc, n) ==
    IF sc = 4 /\ n % 11 = 0 THEN 0
    ELSE IF sc = 4 /\ n % 5 = 0 THEN MAX_PAIR_SECONDS
    ELSE HOUR_SECONDS

\* One sample through both recorders, then the prediction from it.  rec_log
\* notes the reading and the time, tick_out the prediction.
sample(gap) ==
    LET n   == Len(rec_log) + 1
        now == uptime + gap
        r   == Reading(WaterMoisture(script, n), 60, 22, 55, 10)
        res == ml_add_sensor_reading(sensor_data, last_hourly_update, r, now)
        wh2 == water_analysis_add_reading(water_history, r.soil_moisture, now)
        wp  == water_analysis_predict_watering(wh2, r.soil_moisture,
                                               WATERING_THRESHOLD, now)
    IN  /\ uptime' = now
        /\ sensor_data' = res.sensor_data
        /\ last_hourly_update' = res.last_hourly_update
        /\ water_history' = wh2
        /\ tick_out' = [NoTick EXCEPT !.sensor_ok = TRUE, !.processed = TRUE,
                                      !.prediction = wp]
        /\ rec_log' = Append(rec_log,
                             [r |-> r, now |-> now,
                              appended |-> res.sensor_data.history # sensor_data.history])
        /\ UNCHANGED <<due, provisioned, is_connected, cache, cache_head, cache_count,
                       history_loaded, habitat_data, ml_result, nvs,
                       ticks, conn_changes, online_ticks, enq_log, script,
                       reset_requested, factory_reset_requested, unsaved,
                   retry_count, in_reprovisioning_mode, reconnect_work>>

\* A provisioned device after boot, both histories empty, under one script.
InitWater ==
    /\ is_connected = FALSE
    /\ cache = data_cache_init.cache
    /\ cache_head = data_cache_init.cache_head
    /\ cache_count = data_cache_init.cache_count
    /\ sensor_data = ZeroSensorData
    /\ last_hourly_update = 0
    /\ history_loaded = TRUE
    /\ habitat_data = DefaultHabitat
    /\ ml_result = ZeroResult
    /\ water_history = ZeroWaterHistory
    /\ nvs = FirstBootFlash(TRUE)
    /\ tick_out = NoTick
    /\ ticks = 0
    /\ conn_changes = 0
    /\ online_ticks = 0
    /\ enq_log = <<>>
    /\ reset_requested = FALSE
    /\ factory_reset_requested = FALSE
    /\ unsaved = {}
    /\ retry_count = 0
    /\ in_reprovisioning_mode = FALSE
    /\ reconnect_work = NoWork
    /\ rec_log = <<>>
    /\ script \in WaterScripts
    /\ uptime \in BootTimes
    /\ due = uptime
    /\ provisioned = TRUE

FirstSample ==
    /\ rec_log = <<>>
    /\ sample(0)

NextSample ==
    /\ rec_log # <<>>
    /\ Len(rec_log) < MaxSamples
    /\ sample(WaterGap(script, Len(rec_log) + 1))

NextWater == FirstSample \/ NextSample

SpecWater == InitWater /\ [][NextWater]_vars

----------------------------------------------------------------------------
(* ml_analyze_plant_health as a function of the sensor data, the habitat    *)
(* range and what the inference returns.                                    *)

MaxAnalyses == 2

\* Number of appends the history handed to the analysis has seen: none, one,
\* a few, a full day, and one more than a full day.
AnalyzeHistoryLengths == {0, 1, 3, HISTORY_SLOTS, HISTORY_SLOTS + 1}

\* One channel's history after n appends of the moving signal: append j went
\* to slot (j - 1) % 24, and a slot holds the last append that went to it.
HistoryAfter(n, ch) ==
    [values |-> [i \in HistorySlots |->
                    IF n > i
                      THEN ChannelValue(
                               ScriptReading(1, i + 1 + HISTORY_SLOTS
                                                   * ((n - i - 1) \div HISTORY_SLOTS)),
                               ch)
                      ELSE 0],
     index  |-> n % HISTORY_SLOTS,
     filled |-> n >= HISTORY_SLOTS]

\* The sensor data with reading r as its current values over a history of n
\* appends.
SensorDataWith(r, n) ==
    [soil_moisture |-> r.soil_moisture, light_level |-> r.light_level,
     temperature |-> r.temperature, humidity |-> r.humidity,
     air_movement |-> r.air_movement, timestamp |-> 0,
     history |-> [ch \in Channels |-> HistoryAfter(n, ch)]]

\* Values around a range: just below, at the minimum, at the maximum, just
\* above.
AroundRange(lo, hi) == {lo - 1, lo, hi, hi + 1}

\* ReadingInRange and ReadingDryHot, and ReadingInRange with one channel moved
\* to the edges of the habitat's range for it.
BoundaryReadings(hd) ==
    Readings
    \cup {[ReadingInRange EXCEPT !.soil_moisture = v] :
             v \in AroundRange(hd.ideal_soil_moisture_min, hd.ideal_soil_moisture_max)}
    \cup {[ReadingInRange EXCEPT !.light_level = v] :
             v \in AroundRange(hd.ideal_light_level_min, hd.ideal_light_level_max)}
    \cup {[ReadingInRange EXCEPT !.temperature = v] :
             v \in AroundRange(hd.ideal_temperature_min, hd.ideal_temperature_max)}
    \cup {[ReadingInRange EXCEPT !.humidity = v] :
             v \in AroundRange(hd.ideal_humidity_min, hd.ideal_humidity_max)}

\* What tflite_run_inference can return: a failure, or three outputs, among
\* them every pattern of ties.
AnalyzeOutcomes ==
    InferOutcomes
    \cup {[ret |-> 0, output |-> <<10, 20, 70>>]}
    \cup {[ret |-> 0, output |-> <<a, b, c>>] : a, b, c \in {20, 40}}

\* The state after ml_analyze_plant_health returned an.
analysed(an) ==
    /\ ml_result' = an.result
    /\ tick_out' = [NoTick EXCEPT !.processed = TRUE, !.analysis_ret = an.ret,
                                  !.infer_call = an.infer_call]

Analyze ==
    /\ ticks < MaxAnalyses
    /\ ticks' = ticks + 1
    /\ \E infer \in AnalyzeOutcomes :
           analysed(ml_analyze_plant_health(sensor_data, habitat_data, ml_result, infer))
    /\ UNCHANGED <<uptime, due, provisioned, is_connected, cache, cache_head,
                   cache_count, sensor_data, last_hourly_update, history_loaded,
                   habitat_data, water_history, nvs, conn_changes, online_ticks,
                   enq_log, rec_log, script,
                   reset_requested, factory_reset_requested, unsaved,
                   retry_count, in_reprovisioning_mode, reconnect_work>>

\* Any sensor data and either range, before the first analysis.
InitAnalyze ==
    /\ is_connected = FALSE
    /\ cache = data_cache_init.cache
    /\ cache_head = data_cache_init.cache_head
    /\ cache_count = data_cache_init.cache_count
    /\ habitat_data \in {DefaultHabitat, TropicalHabitat}
    /\ \E r \in BoundaryReadings(habitat_data) : \E n \in AnalyzeHistoryLengths :
           sensor_data = SensorDataWith(r, n)
    /\ last_hourly_update = 0
    /\ history_loaded = TRUE
    /\ ml_result = ZeroResult
    /\ water_history = ZeroWaterHistory
    /\ nvs = FirstBootFlash(TRUE)
    /\ tick_out = NoTick
    /\ ticks = 0
    /\ conn_changes = 0
    /\ online_ticks = 0
    /\ enq_log = <<>>
    /\ reset_requested = FALSE
    /\ factory_reset_requested = FALSE
    /\ unsaved = {}
    /\ retry_count = 0
    /\ in_reprovisioning_mode = FALSE
    /\ reconnect_work = NoWork
    /\ rec_log = <<>>
    /\ script = 0
    /\ uptime = 0
    /\ due = 0
    /\ provisioned = TRUE

NextAnalyze == Analyze

SpecAnalyze == InitAnalyze /\ [][NextAnalyze]_vars

----------------------------------------------------------------------------
(* The three buffers under their operations: enqueue, clear, record,        *)
(* add_reading, save and load, called in any order at the points below.     *)

MaxStoreSamples == 170

\* Number of samples taken at which a save, a load or a clear can be called.
CacheSavePoints == {150, 152}

CacheClearPoints == {155}

CacheLoadPoints == {149, 160}

CacheGetPoints == {0, 3, 47, 48, 60, 149, 155}

HistorySavePoints == {162}

HistoryLoadPoints == {165}

WaterSavePoints == {166}

WaterLoadPoints == {165, 169}

Samples == Len(rec_log)

\* Everything but the buffers, the flash, the log of samples and the record
\* of the last get.
StoreUnchanged ==
    UNCHANGED <<due, provisioned, is_connected, history_loaded, habitat_data,
                ml_result, ticks, conn_changes, online_ticks, enq_log,
                script, reset_requested, factory_reset_requested, unsaved,
                   retry_count, in_reprovisioning_mode, reconnect_work>>

\* One sample, an hour after the last, through record, add_reading and
\* enqueue, in the order of the offline handler.
StoreSample ==
    /\ Samples < MaxStoreSamples
    /\ LET now == uptime + HOUR_SECONDS
           r   == ScriptReading(1, Samples + 1)
           res == ml_add_sensor_reading(sensor_data, last_hourly_update, r, now)
           enq == data_cache_add_reading(CacheState(cache, cache_head, cache_count),
                                         r, now, ML_HEALTH_HEALTHY, <<"none">>, "Healthy")
       IN  /\ uptime' = now
           /\ sensor_data' = res.sensor_data
           /\ last_hourly_update' = res.last_hourly_update
           /\ water_history' = water_analysis_add_reading(water_history,
                                                          r.soil_moisture, now)
           /\ cache' = enq.cache
           /\ cache_head' = enq.cache_head
           /\ cache_count' = enq.cache_count
           /\ rec_log' = Append(rec_log, [r |-> r, now |-> now, appended |-> TRUE])
    /\ tick_out' = NoTick
    /\ UNCHANGED nvs
    /\ StoreUnchanged

\* The cache set to what an operation returned.
cache_becomes(st) ==
    /\ cache' = st.cache
    /\ cache_head' = st.cache_head
    /\ cache_count' = st.cache_count

CacheClear ==
    /\ Samples \in CacheClearPoints
    /\ cache_becomes(data_cache_clear(CacheState(cache, cache_head, cache_count)))
    /\ UNCHANGED <<uptime, sensor_data, last_hourly_update, water_history, nvs, rec_log>>
    /\ UNCHANGED tick_out
    /\ StoreUnchanged

\* data_cache_save, each of its two writes succeeding or not.
CacheSave ==
    /\ Samples \in CacheSavePoints
    /\ \E ok_meta, ok_data \in BOOLEAN :
           nvs' = data_cache_save(CacheState(cache, cache_head, cache_count), nvs,
                                  ok_meta, ok_data).nvs
    /\ UNCHANGED <<uptime, cache, cache_head, cache_count, sensor_data,
                   last_hourly_update, water_history, rec_log>>
    /\ UNCHANGED tick_out
    /\ StoreUnchanged

CacheLoad ==
    /\ Samples \in CacheLoadPoints
    /\ cache_becomes(data_cache_load(CacheState(cache, cache_head, cache_count), nvs))
    /\ UNCHANGED <<uptime, sensor_data, last_hourly_update, water_history, nvs, rec_log>>
    /\ UNCHANGED tick_out
    /\ StoreUnchanged

HistorySave ==
    /\ Samples \in HistorySavePoints
    /\ \E ok \in BOOLEAN : nvs' = ml_save_sensor_history(nvs, sensor_data, ok).nvs
    /\ UNCHANGED <<uptime, cache, cache_head, cache_count, sensor_data,
                   last_hourly_update, water_history, rec_log>>
    /\ UNCHANGED tick_out
    /\ StoreUnchanged

HistoryLoad ==
    /\ Samples \in HistoryLoadPoints
    /\ \E ok \in BOOLEAN :
           sensor_data' = ml_load_sensor_history(nvs, sensor_data, ok).sensor_data
    /\ UNCHANGED <<uptime, cache, cache_head, cache_count, last_hourly_update,
                   water_history, nvs, rec_log>>
    /\ UNCHANGED tick_out
    /\ StoreUnchanged

WaterSave ==
    /\ Samples \in WaterSavePoints
    /\ \E ok \in BOOLEAN : nvs' = water_analysis_save(nvs, water_history, ok).nvs
    /\ UNCHANGED <<uptime, cache, cache_head, cache_count, sensor_data,
                   last_hourly_update, water_history, rec_log>>
    /\ UNCHANGED tick_out
    /\ StoreUnchanged

WaterLoad ==
    /\ Samples \in WaterLoadPoints
    /\ water_history' = water_analysis_load(water_history, nvs).water_history
    /\ UNCHANGED <<uptime, cache, cache_head, cache_count, sensor_data,
                   last_hourly_update, nvs, rec_log>>
    /\ UNCHANGED tick_out
    /\ StoreUnchanged

\* The indices a get is called with: around 0, around the count and around
\* the capacity.
GetIndexes ==
    {-2, -1, 0, 1, cache_count - 1, cache_count, cache_count + 1,
     MAX_CACHED_ENTRIES - 1, MAX_CACHED_ENTRIES, MAX_CACHED_ENTRIES + 1}

\* data_cache_get_reading, once after a sample, a clear or a load.
CacheGet ==
    /\ Samples \in CacheGetPoints
    /\ ~ tick_out.cache_get.made
    /\ \E index \in GetIndexes :
           tick_out' = [NoTick EXCEPT !.cache_get =
                           CacheGetCall(index,
                               data_cache_get_reading(
                                   CacheState(cache, cache_head, cache_count), index))]
    /\ UNCHANGED <<uptime, cache, cache_head, cache_count, sensor_data,
                   last_hourly_update, water_history, nvs, rec_log>>
    /\ StoreUnchanged

\* The buffers after their init functions, the flash empty.
InitStore ==
    /\ provisioned = TRUE
    /\ InitCommon
    /\ uptime = 0
    /\ due = 0

NextStore ==
    \/ StoreSample
    \/ CacheClear
    \/ CacheSave
    \/ CacheLoad
    \/ HistorySave
    \/ HistoryLoad
    \/ WaterSave
    \/ WaterLoad
    \/ CacheGet

SpecStore == InitStore /\ [][NextStore]_vars

----------------------------------------------------------------------------
(* A provisioned device with failing flash operations, button requests and  *)
(* the reboots they lead to.                                                *)

MaxRebootTicks == 4

MaxRebootConnChanges == 1

\* The device is between sys_reboot and main().
Rebooting == tick_out.reboot # "none"

\* The flash operations a run in the current state can make.
RebootFlashOps ==
    {"none", "hist", "water"}
    \cup (IF history_loaded THEN {} ELSE {"load"})
    \cup (IF ~ is_connected \/ cache_count > 0 THEN {"meta", "data"} ELSE {})
    \cup (IF button_reboot = "cold" THEN {"reset"} ELSE {})

\* One reading and one healthy analysis; the sensors, the inference, the sink
\* or one flash operation may fail.
RebootInputs ==
    {[NominalInput EXCEPT !.sensor_ok = FALSE],
     TickInput(TRUE, ReadingInRange, HabitatUnavailable, InferenceFailed, -1, TRUE, "none")}
    \cup {TickInput(TRUE, ReadingInRange, HabitatUnavailable, InferHealthy, -1, TRUE, fw) :
              fw \in RebootFlashOps}
    \cup (IF is_connected
           THEN {TickInput(TRUE, ReadingInRange, HabitatUnavailable, InferHealthy, fa, lo, "none") :
                    fa \in {-1, 0} \cap (-1 .. (cache_count - 1)), lo \in BOOLEAN}
           ELSE {})

InitReboot ==
    /\ provisioned = TRUE
    /\ InitCommon
    /\ uptime = 0
    /\ due = 0

RebootTick ==
    /\ ~ Rebooting
    /\ ticks < MaxRebootTicks
    /\ \E in \in RebootInputs : sensor_work_handler(in)

Boot ==
    /\ Rebooting
    /\ main(main_loads(nvs))

ButtonPress ==
    /\ ~ Rebooting
    /\ ticks < MaxRebootTicks
    /\ \E press_type \in {BUTTON_PRESS_SHORT, BUTTON_PRESS_LONG}, press_count \in {1, 2} :
           button_work_handler(press_type, press_count)

RebootConnectivity ==
    /\ ~ Rebooting
    /\ provisioned
    /\ conn_changes < MaxRebootConnChanges
    /\ connectivity_status_callback(~ is_connected, CallbackDelay)

RebootProvisioning ==
    /\ ~ Rebooting
    /\ ~ provisioned
    /\ provisioning_complete_callback

NextReboot ==
    \/ RebootTick
    \/ Boot
    \/ ButtonPress
    \/ RebootConnectivity
    \/ RebootProvisioning

SpecReboot == InitReboot /\ [][NextReboot]_vars

----------------------------------------------------------------------------
(* The system with a link that comes and goes, and runs that keep coming:
   whether the cache filled during an outage is drained *)

MaxDrainTicks == 3

MaxDrainConnChanges == 3

\* A run in which the read, the analysis, every upload and every flash write
\* succeed.
DrainGoodInput == NominalInput

\* The other runs: the read, the inference, an upload or the save of the
\* cleared cache fails.
DrainBadInputs ==
    {[NominalInput EXCEPT !.sensor_ok = FALSE],
     TickInput(TRUE, ReadingInRange, HabitatUnavailable, InferenceFailed, -1, TRUE, "none")}
    \cup (IF is_connected
            THEN {TickInput(TRUE, ReadingInRange, HabitatUnavailable, InferHealthy, fa, TRUE, "none") :
                     fa \in {0} \cap (-1 .. (cache_count - 1))}
                 \cup {TickInput(TRUE, ReadingInRange, HabitatUnavailable, InferHealthy, -1, TRUE, fw) :
                          fw \in {"meta", "data"}}
            ELSE {})

InitDrain ==
    /\ provisioned = TRUE
    /\ InitCommon
    /\ uptime = 0
    /\ due = 0

\* A run of the handler while the link is down, or one in which something
\* fails.
DrainTick ==
    /\ ticks < MaxDrainTicks
    /\ \E in \in (IF is_connected THEN {} ELSE {DrainGoodInput}) \cup DrainBadInputs :
           sensor_work_handler(in)

\* The run the link was waited for: online, with entries in the cache, and
\* nothing fails.
DrainGoodTick ==
    /\ is_connected
    /\ cache_count > 0
    /\ sensor_work_handler(DrainGoodInput)

DrainConnectivity ==
    /\ conn_changes < MaxDrainConnChanges
    /\ connectivity_status_callback(~ is_connected, CallbackDelay)

NextDrain == DrainTick \/ DrainGoodTick \/ DrainConnectivity

\* sensor_work_handler ends every run with k_work_schedule and the connect
\* callback reschedules it at once, so the handler keeps running; the sensors,
\* the classifier and the sink are taken to let a run through in the end.
SpecDrain == InitDrain /\ [][NextDrain]_vars /\ WF_vars(DrainGoodTick)

----------------------------------------------------------------------------
(* Properties *)

\* The step is a run of sensor_work_handler.
TickStep == ticks' = ticks + 1

TheCache == CacheState(cache, cache_head, cache_count)

TheCacheAfter == CacheState(cache', cache_head', cache_count')

\* The uploads of cached entries in a tick's outcome, in order.
CachedUploads(out) == SelectSeq(out.uploads, LAMBDA u : u.kind = "cached")

LiveUploads(out) == SelectSeq(out.uploads, LAMBDA u : u.kind = "live")

\* Some cached entry's upload failed in the tick.
DrainFailed(out) == \E i \in 1 .. Len(out.uploads) :
                        out.uploads[i].kind = "cached" /\ ~ out.uploads[i].ok

\* The last tick analysed its reading successfully.
Analysed(out) == out.sensor_ok /\ out.processed /\ out.analysis_ret = 0

\* C1: when the upload of a cached entry fails in an online tick, that upload is
\* the last cached upload of the tick (the drain stops there), and the cache
\* is as before the tick: same count, and every get(i) answers as before.
C1_FailedDrainKeepsCache ==
    [][(TickStep /\ DrainFailed(tick_out')) =>
          LET cu == CachedUploads(tick_out')
          IN  /\ tick_out'.online
              /\ cache_count > 0
              /\ \A i \in 1 .. Len(cu) : (~ cu[i].ok) => i = Len(cu)
              /\ ~ tick_out'.cleared
              /\ data_cache_count(TheCacheAfter) = data_cache_count(TheCache)
              /\ \A i \in 0 .. (cache_count - 1) :
                    data_cache_get_reading(TheCacheAfter, i)
                        = data_cache_get_reading(TheCache, i)]_vars

\* C1 witness: the third of five cached uploads failed and five entries remain.
C1_Witness ==
    /\ cache_count = 5
    /\ Len(CachedUploads(tick_out)) = 3
    /\ ~ tick_out.uploads[3].ok
    /\ tick_out.uploads[1].ok /\ tick_out.uploads[2].ok
    /\ data_cache_get_reading(TheCache, 4).ret = 0

\* The payloads get(0), get(1), ... of the entries the drain can read, in
\* logical order.
RECURSIVE ReadablePayloads(_, _)
ReadablePayloads(st, i) ==
    IF i >= data_cache_count(st)
      THEN <<>>
      ELSE LET got == data_cache_get_reading(st, i)
           IN  (IF got.ret = 0 THEN <<Payload(got.reading)>> ELSE <<>>)
                   \o ReadablePayloads(st, i + 1)

UploadPayloads(us) == [i \in 1 .. Len(us) |-> us[i].payload]

AllOk(us) == \A i \in 1 .. Len(us) : us[i].ok

\* C2 as stated: the cache is cleared in a tick only when every cached upload
\* and the upload of the live reading succeeded.
C2_ClearNeedsLiveUpload ==
    tick_out.cleared => AllOk(tick_out.uploads)

\* C2: the cache is cleared in a tick only when the cache was not empty and every
\* entry of it the drain could read was uploaded successfully in that tick; the
\* cache is then empty, whether the live reading's upload that follows
\* succeeds or fails.
C2_ClearFollowsDrainOnly ==
    [][(TickStep /\ tick_out'.cleared) =>
          /\ tick_out'.online
          /\ cache_count > 0
          /\ AllOk(CachedUploads(tick_out'))
          /\ UploadPayloads(CachedUploads(tick_out')) = ReadablePayloads(TheCache, 0)
          /\ Len(LiveUploads(tick_out')) = 1
          /\ data_cache_count(TheCacheAfter) = 0]_vars

\* C2 witness: the drain of a tick succeeded and cleared the cache, and the
\* upload of the live reading then failed.
C2_Witness ==
    /\ tick_out.cleared
    /\ Len(CachedUploads(tick_out)) >= 2
    /\ AllOk(CachedUploads(tick_out))
    /\ Len(LiveUploads(tick_out)) = 1
    /\ ~ LiveUploads(tick_out)[1].ok
    /\ cache_count = 0

\* The reading of the last tick is in the cache.
LiveIsCached ==
    \E i \in 0 .. (cache_count - 1) :
        LET got == data_cache_get_reading(TheCache, i)
        IN  got.ret = 0 /\ Payload(got.reading) = tick_out.live

\* The reading of the last tick was uploaded successfully as the live reading.
LiveIsDelivered ==
    \E i \in 1 .. Len(tick_out.uploads) :
        /\ tick_out.uploads[i].kind = "live"
        /\ tick_out.uploads[i].payload = tick_out.live
        /\ tick_out.uploads[i].ok

\* C3 as stated: at the end of a tick whose reading was read and analysed
\* successfully on a provisioned device, that reading was delivered to the
\* upload sink (online) or is in the cache (offline): it is not lost.
C3_NoAnalysedReadingLost ==
    Analysed(tick_out) =>
        \/ tick_out.online /\ LiveIsDelivered
        \/ LiveIsCached

\* The entries enqueued since the cache was last empty that the ring still
\* holds, oldest first.
Surviving == LastN(enq_log, MAX_CACHED_ENTRIES)

\* C4: after n enqueues from an empty cache with no clear in between, count() is
\* min(n, capacity) and get(i) answers the (n - count + i + 1)-th entry
\* enqueued: with n = capacity + k, the (k + 1 + i)-th; and a tick that takes
\* the offline branch always enqueues (the enqueue reports success).
C4_RingKeepsNewest ==
    LET n == Len(enq_log)
    IN  /\ data_cache_count(TheCache) = Min(n, MAX_CACHED_ENTRIES)
        /\ \A i \in 0 .. (cache_count - 1) :
              LET got == data_cache_get_reading(TheCache, i)
              IN  /\ got.ret = 0
                  /\ Payload(got.reading) = enq_log[n - cache_count + i + 1]
        /\ (Analysed(tick_out) /\ ~ tick_out.online) => tick_out.enqueued

\* C4 witness: two enqueues beyond the capacity; the oldest entry the cache
\* answers is the third one enqueued.
C4_Witness ==
    /\ Len(enq_log) = MAX_CACHED_ENTRIES + 2
    /\ cache_count = MAX_CACHED_ENTRIES
    /\ tick_out.enqueued
    /\ Payload(data_cache_get_reading(TheCache, 0).reading) = enq_log[3]
    /\ enq_log[3] # enq_log[1]

InferenceErrors == {o.ret : o \in {x \in InferOutcomes : x.ret < 0}}

\* C6 as stated: when inference fails in a tick, the raw reading is still
\* enqueued in the offline cache in that tick.
C6_FailedInferenceStillCached ==
    (tick_out.processed /\ tick_out.analysis_ret < 0) => tick_out.enqueued

\* C6: when inference fails in a tick, its error is what the analysis returns
\* and the handler drops the reading: nothing is uploaded, nothing is
\* enqueued, and the cache, the water history and the analysis result are
\* as before the tick; only the history store has taken the raw reading (its
\* current values carry the tick's timestamp) and its save was attempted.
C6_FailedInferenceDropsReading ==
    [][(TickStep /\ tick_out'.processed /\ tick_out'.analysis_ret < 0) =>
          /\ tick_out'.analysis_ret \in InferenceErrors
          /\ tick_out'.uploads = <<>>
          /\ ~ tick_out'.enqueued
          /\ ~ tick_out'.cleared
          /\ UNCHANGED <<cache, cache_head, cache_count, water_history, ml_result, enq_log>>
          /\ sensor_data'.timestamp = uptime'
          /\ nvs'["sensor_history"] \in {Stored(sensor_data'), nvs["sensor_history"]}
          /\ \A k \in NvsKeys \ {"sensor_history"} : nvs'[k] = nvs[k]]_vars

\* C6 witness: inference failed in the last tick of a provisioned device; the
\* reading is in the history store and in no cache entry.
C6_Witness ==
    /\ tick_out.processed
    /\ tick_out.analysis_ret = -EFAULT
    /\ tick_out.uploads = <<>>
    /\ sensor_data.timestamp = uptime
    /\ uptime > 0
    /\ nvs["sensor_history"] = Stored(sensor_data)
    /\ \A i \in 0 .. (cache_count - 1) :
          data_cache_get_reading(TheCache, i).reading.timestamp # uptime

NoMismatch(result) ==
    /\ ~ result.environmental_mismatch.temperature
    /\ ~ result.environmental_mismatch.humidity
    /\ ~ result.environmental_mismatch.soil_moisture
    /\ ~ result.environmental_mismatch.light_level

\* The current values of the history store lie inside the ranges used.
InRange ==
    /\ ~ is_temp_mismatch(sensor_data.temperature, habitat_data)
    /\ ~ is_humidity_mismatch(sensor_data.humidity, habitat_data)
    /\ ~ is_moisture_mismatch(sensor_data.soil_moisture, habitat_data)
    /\ ~ is_light_mismatch(sensor_data.light_level, habitat_data)

\* C9 as stated: whatever the earlier analyses on the same result object
\* produced, after an analysis of an in-range reading classified Stressed all
\* four flags are false and the recommendation does not contain
\* "Plant is healthy." (it is empty).
C9_StressedInRangeNotHealthyText ==
    (Analysed(tick_out) /\ InRange /\ ml_result.health_status = ML_HEALTH_STRESSED) =>
        /\ NoMismatch(ml_result)
        /\ \A i \in 1 .. Len(ml_result.recommendation) :
              ml_result.recommendation[i] # "Plant is healthy. "

\* The text the classification and the flags of one analysis determine.
ExpectedRecommendation(result) ==
    IF result.health_status = ML_HEALTH_HEALTHY
      THEN <<"Plant is healthy. ">>
      ELSE (IF result.environmental_mismatch.temperature
              THEN <<"Adjust temperature. ">> ELSE <<>>)
           \o (IF result.environmental_mismatch.humidity
                 THEN <<"Adjust humidity level. ">> ELSE <<>>)
           \o (IF result.environmental_mismatch.soil_moisture
                 THEN <<"Adjust watering schedule. ">> ELSE <<>>)
           \o (IF result.environmental_mismatch.light_level
                 THEN <<"Adjust light exposure. ">> ELSE <<>>)

\* C10 as stated: after an analysis the recommendation is the text determined
\* by the classification and the four flags of that analysis alone.
C10_RecommendationIsFunctionOfResult ==
    Analysed(tick_out) => ml_result.recommendation = ExpectedRecommendation(ml_result)

\* The times of the calls before call j of rec_log that appended.
AppendsBefore(j) == {rec_log[i].now : i \in {k \in 1 .. (j - 1) : rec_log[k].appended}}

\* C7 as stated: a call of record() appends only when at least 3600 s have
\* passed since the last append (the first call appends), a call less than
\* 3600 s after the previous append changes no slot and no cursor, and the
\* current value is that of the last call.
C7_AppendsAnHourApart ==
    /\ \A j \in 1 .. Len(rec_log) :
          rec_log[j].appended <=>
              \A t \in AppendsBefore(j) : rec_log[j].now - t >= HOUR_SECONDS
    /\ rec_log # <<>> =>
          /\ \A ch \in Channels :
                ChannelValue(sensor_data, ch) = ChannelValue(rec_log[Len(rec_log)].r, ch)
          /\ sensor_data.timestamp = rec_log[Len(rec_log)].now

\* Every call came at least an hour after the call before it.
Spaced == \A i \in 1 .. (Len(rec_log) - 1) :
              rec_log[i + 1].now - rec_log[i].now >= HOUR_SECONDS

RecordedValues(ch) == [i \in 1 .. Len(rec_log) |-> ChannelValue(rec_log[i].r, ch)]

\* C8: after N >= 1 calls of record() from an empty history, each at least an
\* hour after the one before, feature 10 + ch of the classifier input is
\* the mean of the last min(N, 24) values recorded for channel ch, for N up
\* to and beyond 24.
C8_RollingAverageOfLastDay ==
    (rec_log # <<>> /\ Spaced) =>
        \A ch \in Channels :
            FracEq(model_input(sensor_data, habitat_data)[10 + ch],
                   Frac(SumSeq(LastN(RecordedValues(ch), HISTORY_SLOTS)),
                        Min(Len(rec_log), HISTORY_SLOTS)))

\* C8 witness: 26 hourly values of a moving signal; the average is that of the
\* last 24 and differs from the mean of all 26.
C8_Witness ==
    /\ Len(rec_log) = HISTORY_SLOTS + 2
    /\ Spaced
    /\ sensor_data.history[0].filled
    /\ sensor_data.history[0].index = 2
    /\ FracEq(rolling_average(sensor_data, 0),
              Frac(SumSeq(LastN(RecordedValues(0), HISTORY_SLOTS)), HISTORY_SLOTS))
    /\ ~ FracEq(rolling_average(sensor_data, 0),
                Frac(SumSeq(RecordedValues(0)), Len(rec_log)))

----------------------------------------------------------------------------
(* The watering predictor: properties over SpecWater *)

\* The samples the 168-slot history holds, oldest first, as the caller gave
\* them: moisture and time.
StoredSamples == LastN(rec_log, WATER_HISTORY_SIZE)

\* The consecutive pairs of the stored samples, oldest first: pair k is
\* samples k and k + 1, its diff is older - newer.
StoredPairs ==
    LET s == StoredSamples
    IN  [k \in 1 .. (Len(s) - 1) |->
            [diff    |-> s[k].r.soil_moisture - s[k + 1].r.soil_moisture,
             seconds |-> s[k + 1].now - s[k].now]]

PairUsable(p) == p.seconds > 0 /\ p.seconds < MAX_PAIR_SECONDS /\ p.diff > 0

UsableOf(ps) == {k \in DOMAIN ps : PairUsable(ps[k])}

UsablePairs == UsableOf(StoredPairs)

Predicted == tick_out.processed /\ rec_log # <<>>

NoForecast ==
    /\ ConfidenceIsZero(tick_out.prediction.prediction_confidence)
    /\ tick_out.prediction.next_watering_timestamp = 0

\* C11 as stated: with fewer than 48 usable pairs in the history, however
\* many samples are stored, the prediction has zero confidence and no
\* forecast.
C11_FewUsableNoForecast ==
    (Predicted /\ Cardinality(UsablePairs) < MIN_WATER_SAMPLES) => NoForecast

\* C11: with fewer than 48 samples stored in the history, e.g. exactly 47,
\* the prediction has zero confidence and no forecast.
C11_FewStoredNoForecast ==
    (Predicted /\ Len(rec_log) < MIN_WATER_SAMPLES) => NoForecast

\* C11 witness: 47 samples falling 1 an hour, 46 usable pairs, no forecast.
C11_Witness ==
    /\ Predicted
    /\ Len(rec_log) = MIN_WATER_SAMPLES - 1
    /\ Cardinality(UsablePairs) = MIN_WATER_SAMPLES - 2
    /\ NoForecast

\* The most recent watering event among pairs ps: the newest pair whose diff
\* is below -5, or 0 when there is none.
LastWateringEvent(ps) ==
    LET events == {k \in DOMAIN ps : ps[k].diff < - WATERING_RISE}
    IN  IF events = {} THEN 0
        ELSE CHOOSE k \in events : \A j \in events : j <= k

\* The usable pairs more recent than the most recent watering event.
ContributingOf(ps, last) == {k \in UsableOf(ps) : k > last}

ContributingSum(ps, used) ==
    SumRange([k \in DOMAIN ps |-> IF k \in used THEN ps[k].diff ELSE 0], 1, Len(ps))

\* C12: once the predictor computes a rate (48 samples stored), the rate is
\* the mean of the diffs of the usable pairs that are more recent than the
\* most recent watering event (a diff below -5): nothing at or older than that
\* event is counted, and every usable pair after it is, whatever unusable
\* pairs lie in between.
C12_RateIsMeanSinceLastWatering ==
    (Predicted /\ Len(rec_log) >= MIN_WATER_SAMPLES) =>
        LET ps   == StoredPairs
            used == ContributingOf(ps, LastWateringEvent(ps))
            sum  == ContributingSum(ps, used)
        IN  /\ tick_out.prediction.count = Cardinality(used)
            /\ tick_out.prediction.total_decline = sum
            /\ used # {} =>
                   FracEq(tick_out.prediction.hourly_decline_rate,
                          Frac(sum, Cardinality(used)))

\* C12 witness: a history with a watering event, usable pairs older than it
\* that are left out, and after it an unusable pair that is skipped with a
\* usable pair older than the skipped one still counted.
C12_Witness ==
    /\ Predicted
    /\ Len(rec_log) >= MIN_WATER_SAMPLES
    /\ LET ps   == StoredPairs
           last == LastWateringEvent(ps)
           used == ContributingOf(ps, last)
       IN  /\ last > 0
           /\ \E k \in UsableOf(ps) : k < last
           /\ \E k \in used : \E j \in (k + 1) .. Len(ps) : ~ PairUsable(ps[j])
           /\ tick_out.prediction.count = Cardinality(used)
           /\ tick_out.prediction.count > 1

\* The newest six samples are 50, 49, 48, 20, 19, 18, an hour apart.
NewestSixDropScenario ==
    /\ Len(rec_log) >= 6
    /\ [i \in 1 .. 6 |-> rec_log[Len(rec_log) - 6 + i].r.soil_moisture]
           = <<50, 49, 48, 20, 19, 18>>
    /\ \A i \in 1 .. 5 :
           rec_log[Len(rec_log) - 5 + i].now - rec_log[Len(rec_log) - 6 + i].now
               = HOUR_SECONDS

\* C13 as stated: in that scenario the rate is computed over 20, 19, 18
\* only: two diffs of 1, rate 1.0, the pairs from 48 -> 20 back left out.
C13_DropTruncatesWindow ==
    (Predicted /\ NewestSixDropScenario) =>
        /\ tick_out.prediction.count = 2
        /\ tick_out.prediction.total_decline = 2
        /\ FracEq(tick_out.prediction.hourly_decline_rate, Frac(1, 1))

\* C13: in that scenario, once 48 samples are stored, the 48 -> 20 step is
\* counted as a decline of 28 and does not end the walk: the five newest
\* pairs all contribute, 1 + 1 + 28 + 1 + 1 = 32, and the rate is 32 / 5 when
\* the pair before them is a watering event.
C13_DropIsCountedAsDecline ==
    (Predicted /\ NewestSixDropScenario /\ Len(rec_log) >= MIN_WATER_SAMPLES) =>
        /\ tick_out.prediction.count >= 5
        /\ tick_out.prediction.total_decline >= 32
        /\ (Len(rec_log) >= 7
              /\ rec_log[Len(rec_log) - 6].r.soil_moisture < 50 - WATERING_RISE)
             => FracEq(tick_out.prediction.hourly_decline_rate, Frac(32, 5))

\* C13 witness: the scenario right after a watering, rate 32 / 5.
C13_Witness ==
    /\ Predicted
    /\ NewestSixDropScenario
    /\ Len(rec_log) >= MIN_WATER_SAMPLES
    /\ tick_out.prediction.count = 5
    /\ FracEq(tick_out.prediction.hourly_decline_rate, Frac(32, 5))

CurrentMoisture == rec_log[Len(rec_log)].r.soil_moisture

CurrentTime == rec_log[Len(rec_log)].now

WaterNow ==
    /\ tick_out.prediction.next_watering_timestamp = CurrentTime
    /\ tick_out.prediction.prediction_confidence = ConfidenceFull

\* C14 as stated: whenever the current moisture is at or below the
\* threshold, the forecast is now, with confidence 100.
C14_AtThresholdWaterNow ==
    (Predicted /\ CurrentMoisture <= WATERING_THRESHOLD) => WaterNow

\* C14: when the current moisture is at or below the threshold, the
\* forecast is now with confidence 100 if 48 samples are stored and the daily
\* rate exceeds 0.01, and otherwise there is no forecast (timestamp 0,
\* confidence 0).
C14_AtThresholdWaterNowIfRateKnown ==
    (Predicted /\ CurrentMoisture <= WATERING_THRESHOLD) =>
        IF /\ Len(rec_log) >= MIN_WATER_SAMPLES
           /\ FracLess(Frac(1, 100), tick_out.prediction.daily_consumption_rate)
          THEN WaterNow
          ELSE NoForecast

\* C14 witness: the moisture reaches the threshold while falling 1 an hour,
\* 48 samples stored.
C14_Witness ==
    /\ Predicted
    /\ CurrentMoisture = WATERING_THRESHOLD
    /\ Len(rec_log) >= MIN_WATER_SAMPLES
    /\ FracEq(tick_out.prediction.daily_consumption_rate, Frac(24, 1))
    /\ CurrentTime > 0
    /\ WaterNow

----------------------------------------------------------------------------
(* The filled flags of the two histories, over SpecWater *)

\* Calls of ml_add_sensor_reading so far that appended to the channels.
ChannelAppends == Cardinality({i \in 1 .. Len(rec_log) : rec_log[i].appended})

\* The cursor and the flag of the five channel histories (1 .. 5) and of the
\* water history (6).
Histories ==
    [h \in 1 .. (NUM_CHANNELS + 1) |->
        IF h <= NUM_CHANNELS
          THEN [index  |-> sensor_data.history[h - 1].index,
                filled |-> sensor_data.history[h - 1].filled]
          ELSE [index  |-> water_history.index,
                filled |-> water_history.filled]]

HistoriesAfter ==
    [h \in 1 .. (NUM_CHANNELS + 1) |->
        IF h <= NUM_CHANNELS
          THEN [index  |-> sensor_data'.history[h - 1].index,
                filled |-> sensor_data'.history[h - 1].filled]
          ELSE [index  |-> water_history'.index,
                filled |-> water_history'.filled]]

\* C20: in each channel history and in the water history, filled is false
\* as long as fewer appends than slots were made (the cursor has not come back
\* to 0), a call sets it exactly when it brings the cursor back to 0, and no
\* call of record / add_reading clears it.
C20_FilledFromFirstWrapOn ==
    /\ [](/\ water_history.filled <=> Len(rec_log) >= WATER_HISTORY_SIZE
          /\ \A ch \in Channels :
                 sensor_data.history[ch].filled <=> ChannelAppends >= HISTORY_SLOTS)
    /\ [][\A h \in DOMAIN Histories :
              /\ Histories[h].filled => HistoriesAfter[h].filled
              /\ (~ Histories[h].filled /\ HistoriesAfter[h].filled)
                     <=> (~ Histories[h].filled
                            /\ Histories[h].index # 0 /\ HistoriesAfter[h].index = 0)]_vars

\* C20 witness: both histories wrapped and written again after the wrap,
\* the flags still set.
C20_Witness ==
    /\ Len(rec_log) = WATER_HISTORY_SIZE + 2
    /\ water_history.filled /\ water_history.index = 2
    /\ ChannelAppends > HISTORY_SLOTS
    /\ \A ch \in Channels :
           sensor_data.history[ch].filled /\ sensor_data.history[ch].index # 0

----------------------------------------------------------------------------
(* The classifier's input and result: properties over SpecAnalyze *)

InferenceCalled == tick_out.infer_call.made

\* The current values in channel order: moisture, light, temperature,
\* humidity, air.
CurrentValues ==
    <<sensor_data.soil_moisture, sensor_data.light_level, sensor_data.temperature,
      sensor_data.humidity, sensor_data.air_movement>>

RangeMiddle(lo, hi) == Frac(lo + hi, 2)

\* value - middle, both as fractions.
OffsetFrom(value, middle) == Frac(value * middle.den - middle.num, middle.den)

\* value - (min + max) / 2 for moisture, light, temperature, humidity; 0 for
\* air.
IdealOffsets ==
    <<OffsetFrom(sensor_data.soil_moisture,
                 RangeMiddle(habitat_data.ideal_soil_moisture_min,
                             habitat_data.ideal_soil_moisture_max)),
      OffsetFrom(sensor_data.light_level,
                 RangeMiddle(habitat_data.ideal_light_level_min,
                             habitat_data.ideal_light_level_max)),
      OffsetFrom(sensor_data.temperature,
                 RangeMiddle(habitat_data.ideal_temperature_min,
                             habitat_data.ideal_temperature_max)),
      OffsetFrom(sensor_data.humidity,
                 RangeMiddle(habitat_data.ideal_humidity_min,
                             habitat_data.ideal_humidity_max)),
      Frac(0, 1)>>

\* The slots of a channel history that were written: all once it is filled,
\* those below the cursor before.
PopulatedSlots(h) == IF h.filled THEN HistorySlots ELSE 0 .. (h.index - 1)

\* The mean of the populated slots of channel ch, or its current value when
\* none is populated.
PopulatedMean(ch) ==
    LET h   == sensor_data.history[ch]
        pop == PopulatedSlots(h)
    IN  IF pop = {}
          THEN Frac(CurrentValues[ch + 1], 1)
          ELSE Frac(SumRange([i \in HistorySlots |->
                                 IF i \in pop THEN h.values[i] ELSE 0],
                             0, HISTORY_SLOTS - 1),
                    Cardinality(pop))

\* C15: the input handed to the inference has 15 elements: 0-4 the current
\* values of moisture, light, temperature, humidity, air; 5-9 the offsets
\* value - (min + max) / 2 of the first four and 0 for air; 10-14 the means of
\* the populated history slots of the five channels, the current value
\* standing in where no slot is populated.
C15_InputLayout ==
    InferenceCalled =>
        /\ DOMAIN tick_out.infer_call.input = 0 .. 14
        /\ \A ch \in Channels :
               /\ FracEq(tick_out.infer_call.input[ch], Frac(CurrentValues[ch + 1], 1))
               /\ FracEq(tick_out.infer_call.input[5 + ch], IdealOffsets[ch + 1])
               /\ FracEq(tick_out.infer_call.input[10 + ch], PopulatedMean(ch))

\* C15 witness: three slots populated, of values whose mean is not the
\* current value, and a reading off the middle of its range.
C15_Witness ==
    /\ InferenceCalled
    /\ \A ch \in Channels :
           /\ sensor_data.history[ch].index = 3
           /\ ~ sensor_data.history[ch].filled
    /\ ~ FracEq(PopulatedMean(0), Frac(sensor_data.soil_moisture, 1))
    /\ FracEq(tick_out.infer_call.input[10], PopulatedMean(0))
    /\ ~ FracEq(tick_out.infer_call.input[5], Frac(0, 1))
    /\ ~ FracEq(tick_out.infer_call.input[5], tick_out.infer_call.input[10])

\* The reading (40, 60, 22, 55, 10) was analysed against the range moisture
\* [30,70], light [30,80], temperature [18,26], humidity [40,70] with an
\* empty history.
ExampleAnalysed ==
    /\ InferenceCalled
    /\ CurrentValues = <<40, 60, 22, 55, 10>>
    /\ habitat_data.ideal_soil_moisture_min = 30 /\ habitat_data.ideal_soil_moisture_max = 70
    /\ habitat_data.ideal_light_level_min = 30 /\ habitat_data.ideal_light_level_max = 80
    /\ habitat_data.ideal_temperature_min = 18 /\ habitat_data.ideal_temperature_max = 26
    /\ habitat_data.ideal_humidity_min = 40 /\ habitat_data.ideal_humidity_max = 70
    /\ \A ch \in Channels :
           sensor_data.history[ch].index = 0 /\ ~ sensor_data.history[ch].filled

InputIs(expected) ==
    \A i \in 0 .. 14 : FracEq(tick_out.infer_call.input[i], expected[i + 1])

\* C16 as stated: the input of the example is
\* [40,60,22,55,10, -10,5,0,-2.5,0, 40,60,22,55,10].
C16_ExampleVector ==
    ExampleAnalysed =>
        InputIs(<<Frac(40, 1), Frac(60, 1), Frac(22, 1), Frac(55, 1), Frac(10, 1),
                  Frac(-10, 1), Frac(5, 1), Frac(0, 1), Frac(-5, 2), Frac(0, 1),
                  Frac(40, 1), Frac(60, 1), Frac(22, 1), Frac(55, 1), Frac(10, 1)>>)

\* C16: the input of the example is
\* [40,60,22,55,10, -10,5,0,0,0, 40,60,22,55,10]: humidity 55 is the middle of
\* [40,70], so its offset is 0.
C16_ExampleVectorHumidityInMiddle ==
    ExampleAnalysed =>
        InputIs(<<Frac(40, 1), Frac(60, 1), Frac(22, 1), Frac(55, 1), Frac(10, 1),
                  Frac(-10, 1), Frac(5, 1), Frac(0, 1), Frac(0, 1), Frac(0, 1),
                  Frac(40, 1), Frac(60, 1), Frac(22, 1), Frac(55, 1), Frac(10, 1)>>)

\* C16 witness: the example analysed, the moisture offset -10 and the
\* moisture average 40 in the input.
C16_Witness ==
    /\ ExampleAnalysed
    /\ FracEq(tick_out.infer_call.input[5], Frac(-10, 1))
    /\ FracEq(tick_out.infer_call.input[10], Frac(40, 1))

AnalysisSucceeded == InferenceCalled /\ tick_out.analysis_ret = 0

StrictlyOutside(value, lo, hi) == value < lo \/ value > hi

\* C17: after an analysis, each of the four mismatch flags is true exactly
\* when the value is below the minimum or above the maximum of its range (a
\* value at the minimum or at the maximum is no mismatch); what the inference
\* returned plays no part in them.
C17_FlagsFromReadingAndRange ==
    AnalysisSucceeded =>
        ml_result.environmental_mismatch =
            [temperature   |-> StrictlyOutside(sensor_data.temperature,
                                               habitat_data.ideal_temperature_min,
                                               habitat_data.ideal_temperature_max),
             humidity      |-> StrictlyOutside(sensor_data.humidity,
                                               habitat_data.ideal_humidity_min,
                                               habitat_data.ideal_humidity_max),
             soil_moisture |-> StrictlyOutside(sensor_data.soil_moisture,
                                               habitat_data.ideal_soil_moisture_min,
                                               habitat_data.ideal_soil_moisture_max),
             light_level   |-> StrictlyOutside(sensor_data.light_level,
                                               habitat_data.ideal_light_level_min,
                                               habitat_data.ideal_light_level_max)]

\* C17 witness: a Healthy result that carries a true flag (humidity below
\* its range), the moisture exactly at its minimum and not flagged.
C17_Witness ==
    /\ AnalysisSucceeded
    /\ ml_result.health_status = ML_HEALTH_HEALTHY
    /\ ml_result.environmental_mismatch.humidity
    /\ sensor_data.humidity < habitat_data.ideal_humidity_min
    /\ sensor_data.soil_moisture = habitat_data.ideal_soil_moisture_min
    /\ ~ ml_result.environmental_mismatch.soil_moisture

\* The largest of the three outputs of the last inference.
MaxOutput ==
    CHOOSE p \in {tick_out.infer_call.output[i] : i \in 1 .. 3} :
        \A i \in 1 .. 3 : tick_out.infer_call.output[i] <= p

\* C18: after an analysis, health_class is the lowest index (Healthy 0,
\* Stressed 1, Critical 2) whose output is the largest of the three, and
\* confidence is that largest output.
C18_ArgmaxLowestIndex ==
    AnalysisSucceeded =>
        /\ ml_result.confidence = MaxOutput
        /\ tick_out.infer_call.output[ml_result.health_status + 1] = MaxOutput
        /\ \A i \in 0 .. 2 :
               tick_out.infer_call.output[i + 1] = MaxOutput
                   => ml_result.health_status <= i

\* C18 witness: Stressed and Critical tie for the largest output, and the
\* result is Stressed.
C18_Witness ==
    /\ AnalysisSucceeded
    /\ tick_out.infer_call.output[2] = tick_out.infer_call.output[3]
    /\ tick_out.infer_call.output[1] < tick_out.infer_call.output[2]
    /\ ml_result.health_status = ML_HEALTH_STRESSED
    /\ ml_result.confidence = tick_out.infer_call.output[2]

----------------------------------------------------------------------------
(* The cursors of the three buffers: a property over SpecStore *)

\* C19: the cache head is in 0 .. 47 and the cache count in 0 .. 48, the
\* cursor of each channel history in 0 .. 23 and the cursor of the water
\* history in 0 .. 167, after any sequence of enqueue, clear, record,
\* add_reading, save and load.
C19_CursorsInBounds ==
    /\ cache_head \in 0 .. (MAX_CACHED_ENTRIES - 1)
    /\ cache_count \in 0 .. MAX_CACHED_ENTRIES
    /\ \A ch \in Channels : sensor_data.history[ch].index \in 0 .. (HISTORY_SLOTS - 1)
    /\ water_history.index \in 0 .. (WATER_HISTORY_SIZE - 1)

\* C19 witness: every cursor has wrapped, and the cache and the channel
\* histories were loaded back from a save made some samples earlier: their
\* cursors are those of the save, not those of the samples taken since.
C19_Witness ==
    /\ Samples > WATER_HISTORY_SIZE
    /\ water_history.filled
    /\ cache_count = MAX_CACHED_ENTRIES
    /\ nvs["cache/meta"].found /\ nvs["cache/data"].found
    /\ cache_head # Samples % MAX_CACHED_ENTRIES
    /\ nvs["sensor_history"].found
    /\ sensor_data.history[0].filled
    /\ sensor_data.history[0].index # Samples % HISTORY_SLOTS

----------------------------------------------------------------------------
(* The five channel histories move together: properties over SpecHist *)

ChannelsAgree ==
    \A ch \in Channels :
        /\ sensor_data.history[ch].index = sensor_data.history[0].index
        /\ sensor_data.history[ch].filled = sensor_data.history[0].filled

\* A step in which channel ch's buffer takes one value: its cursor moves on
\* by one slot.
ChannelAdvances(ch) ==
    sensor_data'.history[ch].index = (sensor_data.history[ch].index + 1) % HISTORY_SLOTS

AllChannelsAdvance == \A ch \in Channels : ChannelAdvances(ch)

NoChannelChanges == sensor_data'.history = sensor_data.history

\* C21: in every reachable state the five channel histories have the same
\* cursor and the same filled flag, and every call of record() either moves
\* all five buffers on by one slot or leaves all five as they were.
C21_ChannelsMoveTogether ==
    /\ [] ChannelsAgree
    /\ [][AllChannelsAdvance \/ NoChannelChanges]_vars

\* C21 witness: the buffers have wrapped, a call behind the closed gate has
\* left them alone, and calls after it have appended again.
C21_Witness ==
    /\ Len(rec_log) > HISTORY_SLOTS
    /\ \E i \in 2 .. (Len(rec_log) - 1) : ~ rec_log[i].appended
    /\ rec_log[Len(rec_log)].appended
    /\ \A ch \in Channels : sensor_data.history[ch].filled
    /\ sensor_data.history[NUM_CHANNELS - 1].index = 1

----------------------------------------------------------------------------
(* The cache's get: properties over SpecStore *)

GetMade == tick_out.cache_get.made

\* A step that is a call of get, the index it was called with and what it
\* returned.
GetStep == ~ tick_out.cache_get.made /\ tick_out'.cache_get.made

GetIndex == tick_out'.cache_get.index

GetRet == tick_out'.cache_get.got.ret

\* C22: a get with a negative index or an index at or beyond count() returns
\* the error -EINVAL, and no get changes the cache, its head or its count; on
\* an empty cache every get fails.
C22_GetOutOfRangeFails ==
    [][GetStep =>
          /\ (GetIndex < 0 \/ GetIndex >= cache_count => GetRet = -EINVAL)
          /\ (cache_count = 0 => GetRet < 0)
          /\ UNCHANGED <<cache, cache_head, cache_count>>]_vars

\* C22 witness: a full ring that has wrapped, asked for index 48 = count().
C22_Witness ==
    /\ GetMade
    /\ cache_count = MAX_CACHED_ENTRIES
    /\ cache_head > 0
    /\ tick_out.cache_get.index = cache_count
    /\ tick_out.cache_get.got.ret = -EINVAL

----------------------------------------------------------------------------
(* Reboot and restore *)

\* The step that is main() after sys_reboot.
BootStep == Rebooting /\ ~ Rebooting'

\* The cache before and after the step answers count() and every get(i) alike.
CacheRestored ==
    LET before == CacheState(cache, cache_head, cache_count)
        after  == CacheState(cache', cache_head', cache_count')
    IN  /\ data_cache_count(after) = data_cache_count(before)
        /\ \A i \in 0 .. (MAX_CACHED_ENTRIES - 1) :
               data_cache_get_reading(after, i) = data_cache_get_reading(before, i)

WaterRestored == water_history' = water_history

\* The history that the first processed reading after the boot loads is the
\* one the run before had in memory.
HistoryRestored ==
    ml_load_sensor_history(nvs', sensor_data', TRUE).sensor_data = sensor_data

----------------------------------------------------------------------------
(* Draining after the link returns: properties over SpecDrain *)

\* The step is the connectivity callback reporting the link up.
ConnectStep == conn_changes' = conn_changes + 1 /\ is_connected'

\* The step is the run that the connect callback rescheduled with K_NO_WAIT.
ReconnectTickStep == TickStep /\ is_connected /\ due = uptime

\* The store holds an empty cache: that is what a boot would load.
EmptyCachePersisted(store) == data_cache_load(data_cache_init, store).cache_count = 0

ConnectTriggersTick == [][ConnectStep => due' = uptime']_vars

\* The run that follows, when its read and analysis succeed and every upload
\* is accepted, leaves the cache empty; it saves a cache it cleared, and the
\* store holds the empty state when that save succeeds.
ReconnectTickDrainsAfterAnalysis ==
    [][(/\ ReconnectTickStep
        /\ tick_out'.sensor_ok /\ tick_out'.processed /\ tick_out'.analysis_ret >= 0
        /\ AllOk(tick_out'.uploads)) =>
          /\ cache_count' = 0
          /\ cache_count > 0 => /\ tick_out'.cleared
                                /\ tick_out'.cache_save.made
                                /\ tick_out'.cache_save.ret = 0
                                      => EmptyCachePersisted(nvs')]_vars

\* While the link stays up a cache with entries is drained in the end.
EventuallyDrained ==
    (is_connected /\ cache_count > 0) ~> (cache_count = 0 \/ ~ is_connected)

----------------------------------------------------------------------------
(* The periodic task keeps itself going: properties over SpecReboot *)

\* The run ended with k_work_schedule(&sensor_work, SENSOR_READ_INTERVAL).
RunScheduledNext ==
    /\ tick_out'.scheduled
    /\ tick_out'.reboot = "none"
    /\ due' = uptime' + SENSOR_READ_INTERVAL

\* The run ended with sys_reboot, a button request having been pending.
RunRebootedOnRequest ==
    /\ tick_out'.reboot # "none"
    /\ reset_requested \/ factory_reset_requested

\* C25: every run of sensor_work_handler ends by scheduling the next run one
\* interval later, or by rebooting on a pending button request, whatever failed
\* in it; the boot that follows a reboot schedules a run at once.
C25_RunAlwaysReschedules ==
    [][/\ TickStep => RunScheduledNext \/ RunRebootedOnRequest
       /\ BootStep => due' = uptime']_vars

\* A run whose inference failed, and one before it whose flash write failed,
\* both followed by the scheduling of the next.
C25_Witness ==
    /\ tick_out.processed
    /\ tick_out.analysis_ret < 0
    /\ tick_out.scheduled
    /\ due = uptime + SENSOR_READ_INTERVAL
    /\ unsaved # {}

----------------------------------------------------------------------------
(* The water history is appended by the analysed runs: properties over Spec *)

\* The step stores (moisture, timestamp) at the cursor and advances the cursor
\* by one modulo WATER_HISTORY_SIZE; no other slot changes.
WaterAppended(moisture, timestamp) ==
    /\ water_history'.moisture =
           [water_history.moisture EXCEPT ![water_history.index] = moisture]
    /\ water_history'.timestamps =
           [water_history.timestamps EXCEPT ![water_history.index] = timestamp]
    /\ water_history'.index = (water_history.index + 1) % WATER_HISTORY_SIZE
    /\ water_history'.filled = (water_history.filled \/ water_history'.index = 0)

\* The run reached the code that follows a successful analysis.
RunAnalysed(out) == out.sensor_ok /\ out.processed /\ out.analysis_ret >= 0

\* C26 as stated: every run that got a sensor reading appends it.
C26_EveryReadingAppended ==
    [][(TickStep /\ tick_out'.sensor_ok) =>
          water_history'.index = (water_history.index + 1) % WATER_HISTORY_SIZE]_vars

\* C26: a run whose reading was analysed (the device provisioned, the read and
\* the analysis successful) appends one sample at the cursor and advances the
\* cursor by one modulo 168, however short the time since the sample before;
\* every other run leaves the water history as it was.
C26_AnalysedReadingAppended ==
    [][TickStep =>
          IF RunAnalysed(tick_out')
            THEN WaterAppended(tick_out'.live.soil_moisture, uptime')
            ELSE water_history' = water_history]_vars

\* Two samples appended by runs less than an hour apart.
C26_Witness ==
    /\ water_history.index = 2
    /\ water_history.timestamps[1] > water_history.timestamps[0]
    /\ water_history.timestamps[1] - water_history.timestamps[0] < HOUR_SECONDS
    /\ RunAnalysed(tick_out)

----------------------------------------------------------------------------
(* Failing saves and loads: properties over SpecReboot *)

FlashCallFailed(call) == call.made /\ call.ret < 0

\* A save or the load made by the run `out` failed.
FlashFailed(out) ==
    \/ FlashCallFailed(out.hist_load)
    \/ FlashCallFailed(out.hist_save)
    \/ FlashCallFailed(out.water_save)
    \/ FlashCallFailed(out.cache_save)

\* The cache after the step is st.
CacheBecomes(st) ==
    /\ cache' = st.cache
    /\ cache_head' = st.cache_head
    /\ cache_count' = st.cache_count

\* The history the run worked on: the one in memory, or the stored one when
\* this run loaded it.
HistoryWorkedOn(out) ==
    IF out.hist_load.made /\ out.hist_load.ret >= 0
      THEN ml_load_sensor_history(nvs, sensor_data, TRUE).sensor_data
      ELSE sensor_data

\* C27: a run in which a save or the load fails is not cut short and its
\* buffers are what the operations on the in-memory state give: the reading is
\* recorded in the history, classified, appended to the water history, and
\* uploaded (after the cached ones, the cache then being cleared) or enqueued.
C27_FlashFailureKeepsRunAndMemory ==
    [][(TickStep /\ FlashFailed(tick_out')) =>
          /\ RunAnalysed(tick_out')
          /\ tick_out'.infer_call.made
          /\ sensor_data' = ml_add_sensor_reading(HistoryWorkedOn(tick_out'),
                                last_hourly_update, ReadingInRange, uptime').sensor_data
          /\ WaterAppended(ReadingInRange.soil_moisture, uptime')
          /\ IF is_connected
               THEN /\ Len(LiveUploads(tick_out')) = 1
                    /\ UploadPayloads(CachedUploads(tick_out'))
                           = ReadablePayloads(TheCache, 0)
                    /\ CacheBecomes(IF cache_count > 0 THEN data_cache_clear(TheCache)
                                                       ELSE TheCache)
               ELSE /\ tick_out'.enqueued
                    /\ CacheBecomes(data_cache_add_reading(TheCache, tick_out'.live,
                           uptime', tick_out'.live.health_status,
                           tick_out'.live.env_mismatch, tick_out'.live.plant_status))
          /\ RunScheduledNext \/ RunRebootedOnRequest]_vars

\* A run while offline whose save of the cache failed: the reading is in the
\* cache in memory all the same.
C27_Witness ==
    /\ tick_out.enqueued
    /\ FlashCallFailed(tick_out.cache_save)
    /\ cache_count > 0
    /\ cache[(cache_head + MAX_CACHED_ENTRIES - 1) % MAX_CACHED_ENTRIES] .timestamp
           = tick_out.live.timestamp
    /\ "cache" \in unsaved

----------------------------------------------------------------------------
(* Who writes the buffers: properties over SpecReboot *)

\* The History Store, the water history and the cache.
Buffers == <<sensor_data, water_history, cache, cache_head, cache_count>>

\* C28: a step that changes the History Store, the water history or the cache
\* is a run of sensor_work_handler, or main() loading them at boot; the
\* connectivity callback, the provisioning callback and the button handler
\* leave them as they are.
C28_OnlyTheTaskWritesBuffers ==
    [][Buffers' # Buffers => TickStep \/ BootStep]_vars

\* The button handler and the connectivity callback have run since the last
\* run of the task, which left a reading in each buffer.
C28_Witness ==
    /\ reset_requested
    /\ is_connected
    /\ due = uptime
    /\ cache_count > 0
    /\ water_history.index > 0
    /\ sensor_data # ZeroSensorData
    /\ RunAnalysed(tick_out)

----------------------------------------------------------------------------
(* The two halves of the decline: properties over SpecWater *)

\* The pairs that the first loop counted, newest first: the usable ones before
\* the pair at which it ended.
CountedPairs(pairs, n) ==
    {i \in 0 .. (water_walk_end(pairs, n) - 1) : water_pair_usable(pairs[i])}

\* The k most recent of the pairs in `used`.
MostRecent(used, k) == {i \in used : Cardinality({j \in used : j <= i}) <= k}

\* Sum of the moisture diffs of the pairs in `of`, n being the number of pairs.
DeclineOver(pairs, n, of) ==
    SumRange([i \in 0 .. (n - 1) |-> IF i \in of THEN pairs[i].moisture_diff ELSE 0],
             0, n - 1)

\* The more recent half of the usable diffs declines less, in the mean, than
\* the older half; false with fewer than MIN_WATER_SAMPLES usable diffs.
UsableHalvesDeclining(pairs, n, used) ==
    LET count   == Cardinality(used)
        halfway == count \div 2
        recent  == MostRecent(used, halfway)
    IN  /\ count >= MIN_WATER_SAMPLES
        /\ FracLess(Frac(DeclineOver(pairs, n, recent), halfway),
                    Frac(DeclineOver(pairs, n, used \ recent), count - halfway))

DecliningAsSpecified(wh) ==
    LET n     == water_stored_samples(wh) - 1
        pairs == water_pairs(wh, n)
    IN  IF n < 1 THEN FALSE ELSE UsableHalvesDeclining(pairs, n, CountedPairs(pairs, n))

\* C29: declining_consumption is true iff there are at least 48 usable diffs
\* and the mean decline of the more recent half of them is strictly lower than
\* that of the older half.
C29_DecliningComparesUsableHalves ==
    tick_out.prediction.declining_consumption = DecliningAsSpecified(water_history)

----------------------------------------------------------------------------
(* A steady decline: properties over SpecWater *)

\* Declines per sample, in percent, of the steady scripts.
DeclineRates == {1, 2}

\* The history holds at least 48 samples, an hour apart, each d below the one
\* before.
SteadyDecline(ps, d) ==
    /\ Len(ps) >= MIN_WATER_SAMPLES - 1
    /\ \A k \in DOMAIN ps : ps[k].seconds = HOUR_SECONDS /\ ps[k].diff = d

\* prediction_confidence > 0.
ConfidencePositive(c) ==
    \/ c.kind = "full"
    \/ c.kind = "computed" /\ c.quantity.num > 0 /\ FracLess(Frac(1, 1000), c.rate)

----------------------------------------------------------------------------
(* The range of the confidence: properties over SpecWater *)

\* Current moistures and thresholds the predictor is asked with, besides the
\* ones of the run.
PredictMoistures == {0, 29, 30, 31, 100}

PredictThresholds == {0, 30, 100}

\* 0 <= prediction_confidence <= 100: the value is 0, or 100, or the product
\* of 100 with a quantity factor in [0, 1] and a consistency factor that is 0
\* (rate not above 0.001) or 1 / (1 + 10 sd / rate) with sd >= 0 and rate > 0.
ConfidenceInRange(c) ==
    \/ c.kind = "zero"
    \/ c.kind = "full"
    \/ /\ c.kind = "computed"
       /\ c.quantity.den > 0 /\ c.quantity.num >= 0
       /\ c.quantity.num <= c.quantity.den
       /\ c.variance.den > 0 /\ c.variance.num >= 0
       /\ c.rate.den > 0 /\ c.rate.num >= 0

\* C31: whatever the history holds, and whatever current moisture and
\* threshold it is asked with, the predictor returns a confidence within
\* [0, 100].
C31_ConfidenceInRange ==
    /\ ConfidenceInRange(tick_out.prediction.prediction_confidence)
    /\ \A m \in PredictMoistures, t \in PredictThresholds :
           ConfidenceInRange(
               water_analysis_predict_watering(water_history, m, t, uptime)
                   .prediction_confidence)

\* More than 72 usable diffs and a moisture above the threshold: the quantity
\* factor is at its cap of 1 and the confidence is the computed one.
C31_Witness ==
    LET p == water_analysis_predict_watering(water_history, 100, WATERING_THRESHOLD,
                                             uptime)
    IN  /\ p.count > FULL_CONFIDENCE_SAMPLES
        /\ p.prediction_confidence.kind = "computed"
        /\ FracEq(p.prediction_confidence.quantity, Frac(1, 1))

----------------------------------------------------------------------------
(* The habitat step of the analysis run on its own: every run fetches the
   range for the configured plant, falls back to the cached copy and then to
   the defaults.  The server's answer, the flash and the link vary. *)

MaxHabitatTicks == 3

MaxHabitatConnChanges == 2

\* What a device can be configured with and what the server calls that plant:
\* one plant whose plantId and nativeRegion differ from the configured name
\* and variety, one for which they are the same strings.
HabitatPlants ==
    <<[plant_name |-> "basil", plant_variety |-> "genovese",
       plant_id |-> "ocimum-basilicum", native_region |-> "mediterranean"],
      [plant_name |-> "mint", plant_variety |-> "asia",
       plant_id |-> "mint", native_region |-> "asia"]>>

\* A body that names every field.
FullBody(p) ==
    [plant_id |-> p.plant_id,
     ideal_temperature_min   |-> TropicalHabitat.ideal_temperature_min,
     ideal_temperature_max   |-> TropicalHabitat.ideal_temperature_max,
     ideal_humidity_min      |-> TropicalHabitat.ideal_humidity_min,
     ideal_humidity_max      |-> TropicalHabitat.ideal_humidity_max,
     ideal_soil_moisture_min |-> TropicalHabitat.ideal_soil_moisture_min,
     ideal_soil_moisture_max |-> TropicalHabitat.ideal_soil_moisture_max,
     ideal_light_level_min   |-> TropicalHabitat.ideal_light_level_min,
     ideal_light_level_max   |-> TropicalHabitat.ideal_light_level_max,
     native_region |-> p.native_region, growing_season |-> "summer"]

\* A body that names the plant and the temperature range only.
PartialBody(p) ==
    [plant_id |-> p.plant_id,
     ideal_temperature_min   |-> TropicalHabitat.ideal_temperature_min,
     ideal_temperature_max   |-> TropicalHabitat.ideal_temperature_max,
     native_region |-> p.native_region]

\* What the request can meet: no answer, an answer other than 200, a 200 with
\* a complete body, a 200 with an incomplete one.
HttpOutcomes(p) ==
    {[ret |-> -EIO, status |-> 0,   body |-> PartialBody(p)],
     [ret |-> 0,    status |-> 404, body |-> PartialBody(p)],
     [ret |-> 0,    status |-> 200, body |-> FullBody(p)],
     [ret |-> 0,    status |-> 200, body |-> PartialBody(p)]}

\* The time between two runs: the sampling interval, exactly a day, a second
\* more than a day.
HabitatGaps == {SENSOR_READ_INTERVAL, HABITAT_CACHE_SECONDS, HABITAT_CACHE_SECONDS + 1}

\* The flash keys the habitat cache can be written or looked up under.
HabitatKeys ==
    UNION {{generate_cache_key(HabitatPlants[i].plant_name,
                               HabitatPlants[i].plant_variety),
            generate_cache_key(HabitatPlants[i].plant_id,
                               HabitatPlants[i].native_region)} :
           i \in DOMAIN HabitatPlants}

\* The flash of a provisioned device on which no habitat has been cached.
HabitatFirstFlash ==
    [k \in NvsKeys \cup HabitatKeys |->
        IF k = "device/provisioned" THEN Stored(TRUE) ELSE NotFound]

NoHabitatRun ==
    [source |-> "none", answered |-> FALSE, complete |-> FALSE,
     cached |-> FALSE, at |-> 0]

InitHabitat ==
    /\ uptime = 0
    /\ due = 0
    /\ provisioned = TRUE
    /\ is_connected \in BOOLEAN
    /\ cache = data_cache_init.cache
    /\ cache_head = data_cache_init.cache_head
    /\ cache_count = data_cache_init.cache_count
    /\ sensor_data = ZeroSensorData
    /\ last_hourly_update = 0
    /\ history_loaded = FALSE
    /\ habitat_data = ZeroHabitatData
    /\ ml_result = ZeroResult
    /\ water_history = ZeroWaterHistory
    /\ nvs = HabitatFirstFlash
    /\ tick_out = NoHabitatRun
    /\ ticks = 0
    /\ conn_changes = 0
    /\ online_ticks = 0
    /\ enq_log = <<>>
    /\ reset_requested = FALSE
    /\ factory_reset_requested = FALSE
    /\ unsaved = {}
    /\ retry_count = 0
    /\ in_reprovisioning_mode = FALSE
    /\ reconnect_work = NoWork
    /\ rec_log = <<>>
    /\ script \in DOMAIN HabitatPlants

\* One run of the habitat step gap seconds after the last one.  tick_out
\* tells which source filled habitat_data, whether the server answered 200,
\* whether its body was complete, and whether the answer was cached.
HabitatTick(gap, http, save_ok) ==
    /\ ticks < MaxHabitatTicks
    /\ uptime' = uptime + gap
    /\ ticks' = ticks + 1
    /\ \E r \in {plant_analysis_habitat(nvs, is_connected,
                                        HabitatPlants[script].plant_name,
                                        HabitatPlants[script].plant_variety,
                                        habitat_data, uptime + gap, http, save_ok)} :
          /\ habitat_data' = r.habitat_data
          /\ nvs' = r.nvs
          /\ tick_out' = [source   |-> r.source,
                          answered |-> is_connected /\ http.ret >= 0 /\ http.status = 200,
                          complete |-> RangeFields \subseteq DOMAIN http.body,
                          cached   |-> r.source = "fetch" /\ save_ok,
                          at       |-> uptime + gap]
    /\ UNCHANGED <<due, provisioned, is_connected, cache, cache_head, cache_count,
                   sensor_data, last_hourly_update, history_loaded, ml_result,
                   water_history, conn_changes, online_ticks, enq_log,
                   reset_requested, factory_reset_requested, unsaved, rec_log,
                   script,
                   retry_count, in_reprovisioning_mode, reconnect_work>>

\* The link comes or goes between two runs.
HabitatConnectivity ==
    /\ conn_changes < MaxHabitatConnChanges
    /\ is_connected' = ~ is_connected
    /\ conn_changes' = conn_changes + 1
    /\ UNCHANGED <<uptime, due, provisioned, cache, cache_head, cache_count,
                   sensor_data, last_hourly_update, history_loaded, habitat_data,
                   ml_result, water_history, nvs, tick_out, ticks, online_ticks,
                   enq_log, reset_requested, factory_reset_requested, unsaved,
                   rec_log, script,
                   retry_count, in_reprovisioning_mode, reconnect_work>>

NextHabitat ==
    \/ \E gap \in HabitatGaps, http \in HttpOutcomes(HabitatPlants[script]),
          save_ok \in BOOLEAN : HabitatTick(gap, http, save_ok)
    \/ HabitatConnectivity

SpecHabitat == InitHabitat /\ [][NextHabitat]_vars

\* A run of the habitat step.
HabitatStep == ticks' = ticks + 1

\* The cached copy the device would look for: under the key of the configured
\* name and variety.
CachedCopy ==
    habitat_storage_load(nvs, generate_cache_key(HabitatPlants[script].plant_name,
                                                 HabitatPlants[script].plant_variety))

\* The range is unavailable to the run that has just ended: the server did
\* not answer 200 and the cached copy is missing or older than a day.
RangeUnavailable ==
    /\ ~ tick_out.answered
    /\ \/ ~ CachedCopy.found
       \/ uptime - CachedCopy.value.timestamp > HABITAT_CACHE_SECONDS

\* A range of which every bound is set together: the defaults or what a
\* complete answer holds.
WholeRange(range) == range = DefaultHabitat \/ range = TropicalHabitat

\* Without a range from the server or the cache the run uses the defaults.
UnavailableGivesDefaults ==
    [][HabitatStep /\ RangeUnavailable'
          => /\ RangeOf(habitat_data') = DefaultHabitat
             /\ habitat_data'.data_valid]_vars

\* C32: when the habitat range is unavailable (the fetch fails and the cached
\* copy is missing or stale) the analysis uses the default ranges 18..26,
\* 40..70, 30..70 and 30..80, and the analysis never runs with an unset or
\* partially loaded range.
C32_DefaultsOrWholeRange ==
    /\ UnavailableGivesDefaults
    /\ [][HabitatStep => WholeRange(RangeOf(habitat_data'))]_vars

\* Reached: a first run whose answer named the temperature range only has
\* left the other three ranges at zero.
C32_PartialRange ==
    /\ tick_out.source = "fetch"
    /\ ~ tick_out.complete
    /\ habitat_data.data_valid
    /\ habitat_data.ideal_temperature_max = TropicalHabitat.ideal_temperature_max
    /\ habitat_data.ideal_humidity_max = 0

----------------------------------------------------------------------------
(* The cached habitat copy and the key it is looked up under *)

\* The last run fetched the range from the server and stored it in flash.
FetchedAndCached == tick_out.source = "fetch" /\ tick_out.cached

\* A run without a link that ends no more than a day after the last run.
OfflineStepWithinADay ==
    /\ HabitatStep
    /\ ~ is_connected
    /\ uptime' - tick_out.at <= HABITAT_CACHE_SECONDS

\* C38: the habitat data cached after a successful fetch for the configured
\* plant name and variety is found again by the load with the same name and
\* variety within 24 hours, so a run without a link after a successful fetch
\* analyses with the fetched range.
C38_CachedCopyFoundOffline ==
    [][FetchedAndCached /\ OfflineStepWithinADay
          => /\ tick_out'.source = "cache"
             /\ RangeOf(habitat_data') = RangeOf(habitat_data)]_vars

\* Reached: a complete answer was fetched and cached, and the run without a
\* link a sampling interval later fell back to the defaults.
C38_DefaultsAfterFetch ==
    /\ tick_out.source = "default"
    /\ ~ CachedCopy.found
    /\ \E p \in {HabitatPlants[script]} :
          LET stored == habitat_storage_load(nvs,
                            generate_cache_key(p.plant_id, p.native_region))
          IN  /\ stored.found
              /\ RangeOf(stored.value) = TropicalHabitat
              /\ uptime - stored.value.timestamp <= HABITAT_CACHE_SECONDS

----------------------------------------------------------------------------
(* The diffs behind the variance and the half-window means: over SpecWater *)

\* The pairs whose diffs the variance loop and the two half-window loops add
\* up when the first loop counted `count` usable diffs: the positions below
\* count, newest first, with a positive moisture diff.
FedPairs(pairs, count) ==
    {i \in 0 .. (count - 1) : pairs[i].moisture_diff > 0}

\* variance_sum * count^2 over the pairs in `of`.
VarianceOver(pairs, n, of, count, total) ==
    SumRange([i \in 0 .. (n - 1) |->
                 LET dev == pairs[i].moisture_diff * count - total
                 IN  IF i \in of THEN dev * dev ELSE 0],
             0, n - 1)

\* The variance the usable diffs counted into the rate have around that rate.
VarianceAsSpecified(wh) ==
    LET n     == water_stored_samples(wh) - 1
        pairs == water_pairs(wh, n)
        w     == water_decline_walk(pairs, n)
    IN  Frac(VarianceOver(pairs, n, CountedPairs(pairs, n), w.count, w.total_decline),
             w.count * w.count * w.count)

\* C33: the diffs that feed the variance (and so the standard deviation) and
\* the two half-window means are exactly the usable diffs counted into
\* hourly_decline_rate: with unusable pairs interleaved none of them is
\* included and no usable pair is left out.
C33_LoopsUseCountedDiffs ==
    Predicted /\ tick_out.prediction.count > 0
        => LET n     == water_stored_samples(water_history) - 1
               pairs == water_pairs(water_history, n)
               p     == tick_out.prediction
           IN  /\ FedPairs(pairs, p.count) = CountedPairs(pairs, n)
               /\ p.prediction_confidence.kind = "computed"
                     => FracEq(p.prediction_confidence.variance,
                               VarianceAsSpecified(water_history))

\* Reached: thirty flat samples lie between the falling ones, the confidence
\* was computed, and the variance left out usable diffs.
C33_UsableDiffsLeftOut ==
    /\ Predicted
    /\ tick_out.prediction.prediction_confidence.kind = "computed"
    /\ LET n     == water_stored_samples(water_history) - 1
           pairs == water_pairs(water_history, n)
       IN  /\ CountedPairs(pairs, n) \ FedPairs(pairs, tick_out.prediction.count) # {}
           /\ ~ FracEq(tick_out.prediction.prediction_confidence.variance,
                       VarianceAsSpecified(water_history))

----------------------------------------------------------------------------
(* The cache indexes after a restore: over SpecReboot *)

\* Every logical index below the count reads a valid entry.
EveryIndexReadable ==
    \A i \in 0 .. (data_cache_count(TheCache) - 1) :
        data_cache_get_reading(TheCache, i).ret = 0

\* C34: in every reachable cache state, also the one data_cache_load restores
\* after a reboot that follows a save of which only one of its two keys was
\* written, every logical index from 0 to count - 1 maps to a valid entry,
\* so that the read of it succeeds and the drain skips none; and while count
\* is below 48, head equals count.
C34_EveryIndexValid ==
    /\ EveryIndexReadable
    /\ cache_count < MAX_CACHED_ENTRIES => cache_head = cache_count

\* Reached: the restored cache counts two entries of which the second is not
\* valid, and flash holds the metadata of the later save with the data of
\* the earlier one.
C34_InvalidSlotBelowCount ==
    /\ cache_count = 2
    /\ data_cache_get_reading(TheCache, 0).ret = 0
    /\ data_cache_get_reading(TheCache, 1).ret = -ENOENT
    /\ nvs["cache/meta"].found /\ nvs["cache/data"].found
    /\ nvs["cache/data"].value = cache
    /\ nvs["cache/meta"].value.count = 2

----------------------------------------------------------------------------
(* The live upload of an online run: over SpecOutage *)

\* C35: in an online run (one that reached the upload after a successful
\* analysis) the live upload is attempted exactly once, after the drain
\* attempt and whether or not the drain succeeded, so that after a failed
\* drain the live reading is sent while older cached ones stay undelivered;
\* a live reading whose upload fails is not added to the cache.
C35_LiveUploadOnceAfterDrain ==
    [][(TickStep /\ tick_out'.online /\ Analysed(tick_out')) =>
          LET us   == tick_out'.uploads
              live == LiveUploads(tick_out')
          IN  /\ Len(live) = 1
              /\ us[Len(us)].kind = "live"
              /\ us[Len(us)].payload = tick_out'.live
              /\ DrainFailed(tick_out')
                    => /\ data_cache_count(TheCacheAfter) = cache_count
                       /\ cache_count > 0
              /\ ~ tick_out'.enqueued
              /\ IF tick_out'.cleared
                   THEN data_cache_count(TheCacheAfter) = 0
                   ELSE TheCacheAfter = TheCache]_vars

\* C35 witness: the drain stopped at a failed upload with two entries cached,
\* the live reading was then sent and accepted, and both cached entries are
\* still waiting.
C35_Witness ==
    /\ tick_out.online
    /\ DrainFailed(tick_out)
    /\ Len(LiveUploads(tick_out)) = 1
    /\ LiveUploads(tick_out)[1].ok
    /\ cache_count = 2
    /\ ~ tick_out.enqueued

\* Reached: the live upload failed in an online run and the cache is empty
\* afterwards.
FailedLiveNotCached ==
    /\ tick_out.online
    /\ Len(LiveUploads(tick_out)) = 1
    /\ ~ LiveUploads(tick_out)[1].ok
    /\ ~ tick_out.cleared
    /\ cache_count = 0

----------------------------------------------------------------------------
(* The hourly gate across a reboot: over SpecReboot *)

\* The run that has just ended appended its reading to all five channel
\* histories, at the cursors of the history it worked on.
AppendedToAllChannels ==
    \A ch \in Channels :
        LET before == HistoryWorkedOn(tick_out').history[ch]
            after  == sensor_data'.history[ch]
        IN  /\ after.values[before.index] = ChannelValue(sensor_data', ch)
            /\ after.index = (before.index + 1) % HISTORY_SLOTS

----------------------------------------------------------------------------
(* The reconnect logic of the ESP32 connectivity layer on its own: the link
   comes and goes, and the reconnect work runs when it is due. *)

MaxReconnectRuns == 6

MaxWifiEvents == 4

\* What connectivity_connect can return to the reconnect handler: the
\* request was handed to the WiFi driver, or loading the credentials or the
\* request failed.
ConnectReturns == {0, -EIO}

TheWifi == WifiState(is_connected, retry_count, in_reprovisioning_mode, reconnect_work)

\* tick_out of this specification: whether the last run of the handler
\* attempted a connection and what the attempt returned; failures, the
\* attempts that have failed in a row since the link was last up or a request
\* was last accepted; requested, whether a connection request is with the
\* driver; restarts, the calls of ble_restart_advertising so far.
NoReconnectRun ==
    [attempted |-> FALSE, ret |-> 0, failures |-> 0, requested |-> TRUE,
     restarts |-> 0]

\* After main(): connectivity_init, and connectivity_connect has handed its
\* request to the driver.
InitConnect ==
    /\ uptime = 0
    /\ due = 0
    /\ provisioned = TRUE
    /\ is_connected = FALSE
    /\ cache = data_cache_init.cache
    /\ cache_head = data_cache_init.cache_head
    /\ cache_count = data_cache_init.cache_count
    /\ sensor_data = ZeroSensorData
    /\ last_hourly_update = 0
    /\ history_loaded = FALSE
    /\ habitat_data = DefaultHabitat
    /\ ml_result = ZeroResult
    /\ water_history = ZeroWaterHistory
    /\ nvs = FirstBootFlash(TRUE)
    /\ tick_out = NoReconnectRun
    /\ ticks = 0
    /\ conn_changes = 0
    /\ online_ticks = 0
    /\ enq_log = <<>>
    /\ reset_requested = FALSE
    /\ factory_reset_requested = FALSE
    /\ unsaved = {}
    /\ rec_log = <<>>
    /\ script = 0
    /\ retry_count = 0
    /\ in_reprovisioning_mode = FALSE
    /\ reconnect_work = NoWork

\* What the actions of this specification leave alone.
ConnectUnchanged ==
    UNCHANGED <<provisioned, cache, cache_head, cache_count, sensor_data,
                last_hourly_update, history_loaded, habitat_data, ml_result,
                water_history, nvs, online_ticks, enq_log, reset_requested,
                factory_reset_requested, unsaved, rec_log, script>>

SetWifi(w) ==
    /\ is_connected' = w.is_connected
    /\ retry_count' = w.retry_count
    /\ in_reprovisioning_mode' = w.in_reprovisioning_mode
    /\ reconnect_work' = w.reconnect_work

\* Seconds after which something happens next.
EventDelays == {0, 2, 7}

\* The event comes before the reconnect work is due.
BeforeReconnect(delay) ==
    reconnect_work.pending => uptime + delay <= reconnect_work.due

\* NET_EVENT_WIFI_CONNECT_RESULT for a request the driver holds.
WifiConnected(delay) ==
    /\ conn_changes < MaxWifiEvents
    /\ ~ is_connected
    /\ tick_out.requested
    /\ BeforeReconnect(delay)
    /\ uptime' = uptime + delay
    /\ SetWifi(wifi_mgmt_event_handler(TheWifi, TRUE, uptime + delay))
    /\ due' = uptime + delay
    /\ conn_changes' = conn_changes + 1
    /\ tick_out' = [tick_out EXCEPT !.attempted = FALSE, !.failures = 0,
                                    !.requested = FALSE]
    /\ UNCHANGED ticks
    /\ ConnectUnchanged

\* connectivity_connect called from outside the reconnect handler, when new
\* credentials have been provisioned (main.c provisioning_complete_callback).
ManualConnect(delay, connect_ret) ==
    /\ conn_changes < MaxWifiEvents
    /\ ~ is_connected
    /\ BeforeReconnect(delay)
    /\ uptime' = uptime + delay
    /\ SetWifi(connectivity_connect(TheWifi))
    /\ conn_changes' = conn_changes + 1
    /\ tick_out' = [tick_out EXCEPT !.attempted = FALSE,
                                    !.requested = connect_ret >= 0]
    /\ UNCHANGED <<due, ticks>>
    /\ ConnectUnchanged

\* NET_EVENT_WIFI_DISCONNECT_RESULT: the link is lost.
WifiDisconnected(delay) ==
    /\ conn_changes < MaxWifiEvents
    /\ is_connected
    /\ BeforeReconnect(delay)
    /\ uptime' = uptime + delay
    /\ SetWifi(wifi_mgmt_event_handler(TheWifi, FALSE, uptime + delay))
    /\ conn_changes' = conn_changes + 1
    /\ tick_out' = [tick_out EXCEPT !.attempted = FALSE]
    /\ UNCHANGED <<due, ticks>>
    /\ ConnectUnchanged

\* The reconnect work runs at the time it is due.
ReconnectRun(connect_ret) ==
    /\ ticks < MaxReconnectRuns
    /\ reconnect_work.pending
    /\ uptime' = reconnect_work.due
    /\ ticks' = ticks + 1
    /\ \E r \in {reconnect_work_handler([TheWifi EXCEPT !.reconnect_work = NoWork],
                                        reconnect_work.due, connect_ret)} :
          /\ SetWifi(r.w)
          /\ tick_out' =
                [attempted |-> r.attempted,
                 ret       |-> IF r.attempted THEN connect_ret ELSE 0,
                 failures  |-> IF r.attempted /\ connect_ret < 0
                                 THEN tick_out.failures + 1 ELSE 0,
                 requested |-> IF r.attempted THEN connect_ret >= 0
                                              ELSE tick_out.requested,
                 restarts  |-> tick_out.restarts + (IF r.started THEN 1 ELSE 0)]
    /\ UNCHANGED <<due, conn_changes>>
    /\ ConnectUnchanged

NextConnect ==
    \/ \E delay \in EventDelays : WifiConnected(delay)
    \/ \E delay \in EventDelays : WifiDisconnected(delay)
    \/ \E delay \in EventDelays, connect_ret \in ConnectReturns :
          ManualConnect(delay, connect_ret)
    \/ \E connect_ret \in ConnectReturns : ReconnectRun(connect_ret)

SpecConnect == InitConnect /\ [][NextConnect]_vars

\* A run of the reconnect handler.
ReconnectStep == ticks' = ticks + 1

\* A run of the reconnect handler whose connection attempt failed.
FailedAttempt == ReconnectStep /\ tick_out'.attempted /\ tick_out'.ret < 0

\* C37: after a disconnect the reconnect handler counts the consecutive failed
\* attempts and retries every 5 s; when the count reaches
\* MAX_CONNECTION_RETRIES (3) it enters reprovisioning mode (BLE advertising
\* is restarted) and from then on retries once per hour; a successful
\* connection resets the count to 0.
C37_ThreeFailuresReprovision ==
    /\ [][FailedAttempt => retry_count' = tick_out'.failures]_vars
    /\ [][FailedAttempt /\ tick_out'.failures < MAX_CONNECTION_RETRIES
             => /\ reconnect_work'.pending
                /\ reconnect_work'.due = uptime' + CONNECTION_RETRY_DELAY]_vars
    /\ [][FailedAttempt /\ tick_out'.failures >= MAX_CONNECTION_RETRIES
             => /\ in_reprovisioning_mode'
                /\ tick_out'.restarts > 0
                /\ reconnect_work'.pending
                /\ reconnect_work'.due = uptime' + RECONNECTION_INTERVAL]_vars
    /\ [][is_connected' /\ ~ is_connected => retry_count' = 0]_vars

\* Reached: six attempts in a row have failed, 5 s apart, and the device has
\* neither entered reprovisioning mode nor counted beyond 1.
C37_NeverReprovisions ==
    /\ tick_out.failures = MaxReconnectRuns
    /\ retry_count = 1
    /\ ~ in_reprovisioning_mode
    /\ tick_out.restarts = 0
    /\ reconnect_work.pending
    /\ reconnect_work.due = uptime + CONNECTION_RETRY_DELAY

\* In no reachable state is the device in reprovisioning mode.
NoReprovisioning == ~ in_reprovisioning_mode /\ retry_count <= 1

====
